---- MODULE Spec2Model ----
(***************************************************************************)
(* A model of the Figma-to-JSON export plugin: the UI message handler of   *)
(* code.ts, the scene parser of parser.ts, the tree transformer of         *)
(* transformer.ts with its token registry (tokens.ts) and the pattern      *)
(* classifier (patterns.ts).                                               *)
(*                                                                         *)
(* Encoding of JavaScript values:                                          *)
(*   - a string is a TLA+ string; toUpperCase, trim, join, template        *)
(*     literals and regular-expression tests are computed on characters;   *)
(*   - an object is a record; an optional property that is undefined is a  *)
(*     field that is absent from the record (Has(r, "k"));                 *)
(*   - a value of a union type carries its variant as the name of a        *)
(*     one-field record: Num(8) / Tup(<<8,4,8,4>>) / Str("hug") / ...;     *)
(*   - a color channel (a float in 0..1) is an integer number of 1/510,    *)
(*     so that Math.round(n * 255) rounds; an alpha or a fill opacity is   *)
(*     an integer number of hundredths; a node opacity is an integer       *)
(*     number of thousandths; lengths are whole pixels.                    *)
(***************************************************************************)
EXTENDS Integers, Sequences, FiniteSets, TLC

VARIABLES
    selection,   \* figma.currentPage.selection: a sequence of scene nodes
    inbox,       \* messages the UI has posted to the plugin, not yet handled
    selChanges,  \* selection changes the user has made so far
    pc,          \* position of the running onmessage handler
    options,     \* the handler's ExportOptions
    rawData,     \* exportSelection: the parser's result
    te,          \* transformTree: the TokenExtractor of the running export
    stack,       \* transformNode: the activation records of the recursion
    out,         \* exportSelection: the { tree, tokens } transformTree returned
    result,      \* exportSelection's return value
    ui,          \* messages posted to the UI, oldest first
    log          \* history: one record per export request that was answered

vars == <<selection, inbox, selChanges, pc, options, rawData, te, stack, out,
          result, ui, log>>

Null == [null |-> TRUE]

\* a local variable that has not been assigned
Unset == [unset |-> TRUE]

Has(r, k) == k \in DOMAIN r

Num(x) == [num |-> x]
Tup(x) == [tuple |-> x]
Str(x) == [str |-> x]

(***************************************************************************)
(* Strings                                                                 *)
(***************************************************************************)
LowerChars == "abcdefghijklmnopqrstuvwxyz"
UpperChars == "ABCDEFGHIJKLMNOPQRSTUVWXYZ"
HexChars == "0123456789abcdef"

CharAt(s, i) == SubSeq(s, i, i)

IndexIn(c, alphabet) ==
    IF \E i \in 1..Len(alphabet) : CharAt(alphabet, i) = c
    THEN CHOOSE i \in 1..Len(alphabet) : CharAt(alphabet, i) = c
    ELSE 0

UpperChar(c) ==
    LET i == IndexIn(c, LowerChars) IN IF i = 0 THEN c ELSE CharAt(UpperChars, i)

LowerChar(c) ==
    LET i == IndexIn(c, UpperChars) IN IF i = 0 THEN c ELSE CharAt(LowerChars, i)

RECURSIVE ToUpperCase(_)
ToUpperCase(s) ==
    IF Len(s) = 0 THEN ""
    ELSE UpperChar(CharAt(s, 1)) \o ToUpperCase(SubSeq(s, 2, Len(s)))

RECURSIVE ToLowerCase(_)
ToLowerCase(s) ==
    IF Len(s) = 0 THEN ""
    ELSE LowerChar(CharAt(s, 1)) \o ToLowerCase(SubSeq(s, 2, Len(s)))

RECURSIVE TrimStart(_)
TrimStart(s) ==
    IF Len(s) > 0 /\ CharAt(s, 1) = " " THEN TrimStart(SubSeq(s, 2, Len(s))) ELSE s

RECURSIVE TrimEnd(_)
TrimEnd(s) ==
    IF Len(s) > 0 /\ CharAt(s, Len(s)) = " "
    THEN TrimEnd(SubSeq(s, 1, Len(s) - 1))
    ELSE s

Trim(s) == TrimEnd(TrimStart(s))

StartsWithAt(s, i, lit) ==
    i + Len(lit) - 1 <= Len(s) /\ SubSeq(s, i, i + Len(lit) - 1) = lit

Includes(s, lit) == \E i \in 1..(Len(s) + 1) : StartsWithAt(s, i, lit)

\* /a.?b/ : a, then at most one character, then b
IncludesOpt(s, a, b) ==
    \E i \in 1..(Len(s) + 1) :
        /\ StartsWithAt(s, i, a)
        /\ \/ StartsWithAt(s, i + Len(a), b)
           \/ StartsWithAt(s, i + Len(a) + 1, b)

\* A case-insensitive test of a regular expression that is an alternation of
\* literals (a one-element sequence) and of a.?b forms (a two-element sequence).
RegexTestI(alts, name) ==
    LET s == ToLowerCase(name) IN
    \E k \in 1..Len(alts) :
        IF Len(alts[k]) = 1 THEN Includes(s, alts[k][1])
        ELSE IncludesOpt(s, alts[k][1], alts[k][2])

RECURSIVE Join(_, _)
Join(strs, sep) ==
    IF Len(strs) = 0 THEN ""
    ELSE IF Len(strs) = 1 THEN strs[1]
    ELSE strs[1] \o sep \o Join(Tail(strs), sep)

RECURSIVE SelectSeqIdx(_, _, _)
\* the indices i (ascending) of s with Test(s[i])
SelectSeqIdx(s, Test(_), i) ==
    IF i > Len(s) THEN <<>>
    ELSE (IF Test(s[i]) THEN <<i>> ELSE <<>>) \o SelectSeqIdx(s, Test, i + 1)

(***************************************************************************)
(* transformer.ts: colors                                                  *)
(***************************************************************************)
\* Math.round(n * 255) for a channel n = c / 510
Round255(c) == (c + 1) \div 2

\* n.toString(16).padStart(2, '0') of a byte
ToHex2(v) == CharAt(HexChars, (v \div 16) + 1) \o CharAt(HexChars, (v % 16) + 1)

rgbToHex(r, g, b) ==
    ToUpperCase("#" \o ToHex2(Round255(r)) \o ToHex2(Round255(g)) \o ToHex2(Round255(b)))

\* a.toFixed(2) of an alpha of a hundredths
ToFixed2(a) ==
    ToString(a \div 100) \o "." \o ToString((a % 100) \div 10) \o ToString(a % 10)

rgbaToString(r, g, b, a) ==
    IF a = 100 THEN rgbToHex(r, g, b)
    ELSE "rgba(" \o ToString(Round255(r)) \o "," \o ToString(Round255(g)) \o ","
         \o ToString(Round255(b)) \o "," \o ToFixed2(a) \o ")"

(***************************************************************************)
(* JavaScript Map and plain-object dictionaries: a sequence of entries in  *)
(* insertion order. set on a present key replaces its value in place.      *)
(***************************************************************************)
MapHas(m, key) == \E i \in 1..Len(m) : m[i].k = key

MapGet(m, key) == m[CHOOSE i \in 1..Len(m) : m[i].k = key].v

MapSet(m, key, val) ==
    IF MapHas(m, key)
    THEN [i \in 1..Len(m) |-> IF m[i].k = key THEN [k |-> key, v |-> val] ELSE m[i]]
    ELSE Append(m, [k |-> key, v |-> val])

MapKeys(m) == [i \in 1..Len(m) |-> m[i].k]

MapValues(m) == [i \in 1..Len(m) |-> m[i].v]

(***************************************************************************)
(* tokens.ts: TokenExtractor                                               *)
(***************************************************************************)
\* one extractor kept for the life of the plugin instead of one per transformTree
SharedTokenExtractor ==
    IF te = Unset
    THEN [colors |-> <<>>, fonts |-> <<>>, shadows |-> <<>>,
          colorCounter |-> 0, fontCounter |-> 0, shadowCounter |-> 0]
    ELSE te

NewTokenExtractor ==
    [colors |-> <<>>, fonts |-> <<>>, shadows |-> <<>>,
     colorCounter |-> 0, fontCounter |-> 0, shadowCounter |-> 0]

\* String.prototype.trim is modelled on the space character.
\* Each add* returns the extractor after the call and the token returned.
\* addColor with the counter advanced before the identifier is composed
addColorOffByOne(t, color) ==
    LET normalized == ToUpperCase(color) IN
    IF MapHas(t.colors, normalized)
    THEN [te |-> t, token |-> MapGet(t.colors, normalized)]
    ELSE LET token == "$c" \o ToString(t.colorCounter + 1) IN
         [te |-> [t EXCEPT !.colors = MapSet(@, normalized, token),
                           !.colorCounter = @ + 1],
          token |-> token]

addColor(t, color) ==
    LET normalized == ToUpperCase(color) IN
    IF MapHas(t.colors, normalized)
    THEN [te |-> t, token |-> MapGet(t.colors, normalized)]
    ELSE LET token == "$c" \o ToString(t.colorCounter) IN
         [te |-> [t EXCEPT !.colors = MapSet(@, normalized, token),
                           !.colorCounter = @ + 1],
          token |-> token]

\* addFont keyed by the family as given, not trimmed
addFontUntrimmed(t, fontFamily) ==
    IF MapHas(t.fonts, fontFamily)
    THEN [te |-> t, token |-> MapGet(t.fonts, fontFamily)]
    ELSE LET token == "$f" \o ToString(t.fontCounter) IN
         [te |-> [t EXCEPT !.fonts = MapSet(@, fontFamily, token),
                           !.fontCounter = @ + 1],
          token |-> token]

addFont(t, fontFamily) ==
    LET normalized == Trim(fontFamily) IN
    IF MapHas(t.fonts, normalized)
    THEN [te |-> t, token |-> MapGet(t.fonts, normalized)]
    ELSE LET token == "$f" \o ToString(t.fontCounter) IN
         [te |-> [t EXCEPT !.fonts = MapSet(@, normalized, token),
                           !.fontCounter = @ + 1],
          token |-> token]

addShadow(t, shadow) ==
    LET normalized == Trim(shadow) IN
    IF MapHas(t.shadows, normalized)
    THEN [te |-> t, token |-> MapGet(t.shadows, normalized)]
    ELSE LET token == "$s" \o ToString(t.shadowCounter) IN
         [te |-> [t EXCEPT !.shadows = MapSet(@, normalized, token),
                           !.shadowCounter = @ + 1],
          token |-> token]

RECURSIVE TokensToObject(_, _)
\* map.forEach((token, value) => { obj[token.substring(1)] = value })
TokensToObject(m, obj) ==
    IF Len(m) = 0 THEN obj
    ELSE TokensToObject(Tail(m),
                        MapSet(obj, SubSeq(m[1].v, 2, Len(m[1].v)), m[1].k))

getTokens(t) ==
    [colors |-> TokensToObject(t.colors, <<>>),
     fonts |-> TokensToObject(t.fonts, <<>>),
     shadows |-> TokensToObject(t.shadows, <<>>)]

EmptyTokens == [colors |-> <<>>, fonts |-> <<>>, shadows |-> <<>>]

\* optimizeTokens that also empties a dictionary of a single entry
optimizeTokensDroppingSingles(tokens) ==
    [colors |-> IF Len(tokens.colors) > 1 THEN tokens.colors ELSE <<>>,
     fonts |-> IF Len(tokens.fonts) > 1 THEN tokens.fonts ELSE <<>>,
     shadows |-> IF Len(tokens.shadows) > 1 THEN tokens.shadows ELSE <<>>]

optimizeTokens(tokens) ==
    [colors |-> IF Len(tokens.colors) > 0 THEN tokens.colors ELSE <<>>,
     fonts |-> IF Len(tokens.fonts) > 0 THEN tokens.fonts ELSE <<>>,
     shadows |-> IF Len(tokens.shadows) > 0 THEN tokens.shadows ELSE <<>>]

(***************************************************************************)
(* transformer.ts: style extractors. Each returns the extractor after the  *)
(* call and, when the result is not undefined, the value in "val".         *)
(***************************************************************************)
IsVisible(x) == ~(Has(x, "visible") /\ x.visible = FALSE)

\* arr.find(Test): <<the first element>> or <<>>
Find(arr, Test(_)) ==
    LET idx == SelectSeqIdx(arr, Test, 1) IN
    IF Len(idx) = 0 THEN <<>> ELSE <<arr[idx[1]]>>

\* Math.round(p * 100) / 100 of p thousandths, in hundredths
RoundHundredths(p) == (p + 5) \div 10

RECURSIVE GradientStops(_, _, _)
GradientStops(stops, t, useTokens) ==
    IF Len(stops) = 0 THEN [te |-> t, val |-> <<>>]
    ELSE LET stop == stops[1]
             color == rgbaToString(stop.color.r, stop.color.g, stop.color.b, stop.color.a)
             added == addColor(t, color)
             t1 == IF useTokens THEN added.te ELSE t
             rest == GradientStops(Tail(stops), t1, useTokens)
         IN  [te |-> rest.te,
              val |-> <<[pos |-> RoundHundredths(stop.position),
                         color |-> IF useTokens THEN added.token ELSE color]>>
                      \o rest.val]

extractBackground(raw, t, useTokens) ==
    IF ~Has(raw, "fills") \/ Len(raw.fills) = 0 THEN [te |-> t]
    ELSE
    LET found == Find(raw.fills, IsVisible) IN
    IF Len(found) = 0 THEN [te |-> t]
    ELSE
    LET visibleFill == found[1] IN
    IF visibleFill.type = "SOLID" /\ Has(visibleFill, "color")
    THEN LET opacity == IF Has(visibleFill, "opacity") THEN visibleFill.opacity ELSE 100
             c == visibleFill.color
             color == IF opacity = 100 THEN rgbToHex(c.r, c.g, c.b)
                      ELSE rgbaToString(c.r, c.g, c.b, opacity)
             added == addColor(t, color)
         IN  IF useTokens THEN [te |-> added.te, val |-> [solid |-> added.token]]
             ELSE [te |-> t, val |-> [solid |-> color]]
    ELSE IF visibleFill.type \in {"GRADIENT_LINEAR", "GRADIENT_RADIAL"}
            /\ Has(visibleFill, "gradientStops")
    THEN LET stops == GradientStops(visibleFill.gradientStops, t, useTokens)
             \* gradientTransform is kept as the angle Math.round(atan2(b, a) * 180 / PI)
             angle == IF Has(visibleFill, "gradientTransform")
                      THEN visibleFill.gradientTransform.deg ELSE 0
             base == [type |-> IF visibleFill.type = "GRADIENT_LINEAR"
                               THEN "linear" ELSE "radial",
                      stops |-> stops.val]
         IN  [te |-> stops.te,
              val |-> [gradient |-> IF angle # 0 THEN base @@ [angle |-> angle] ELSE base]]
    ELSE [te |-> t]

\* extractBorder that interns the stroke color whatever useTokens is
extractBorderInterning(raw, t, useTokens) ==
    IF ~Has(raw, "strokes") \/ Len(raw.strokes) = 0
       \/ ~Has(raw, "strokeWeight") \/ raw.strokeWeight = 0
    THEN [te |-> t]
    ELSE
    LET found == Find(raw.strokes, IsVisible) IN
    IF Len(found) = 0 \/ found[1].type # "SOLID" \/ ~Has(found[1], "color")
    THEN [te |-> t]
    ELSE
    LET c == found[1].color
        added == addColor(t, rgbToHex(c.r, c.g, c.b))
    IN  [te |-> added.te,
         val |-> [w |-> raw.strokeWeight, c |-> added.token, style |-> "solid"]]

extractBorder(raw, t, useTokens) ==
    IF ~Has(raw, "strokes") \/ Len(raw.strokes) = 0
       \/ ~Has(raw, "strokeWeight") \/ raw.strokeWeight = 0
    THEN [te |-> t]
    ELSE
    LET found == Find(raw.strokes, IsVisible) IN
    IF Len(found) = 0 \/ found[1].type # "SOLID" \/ ~Has(found[1], "color")
    THEN [te |-> t]
    ELSE
    LET c == found[1].color
        color == rgbToHex(c.r, c.g, c.b)
        dash == IF Has(raw, "dashPattern") THEN raw.dashPattern ELSE <<>>
        style == IF Len(dash) > 0
                 THEN IF Len(dash) = 2 /\ dash[1] = dash[2] THEN "dashed"
                      ELSE IF \E i \in 1..Len(dash) : dash[i] <= 2 THEN "dotted"
                      ELSE "dashed"
                 ELSE "solid"
        added == addColor(t, color)
    IN  [te |-> IF useTokens THEN added.te ELSE t,
         val |-> [w |-> raw.strokeWeight,
                  c |-> IF useTokens THEN added.token ELSE color,
                  style |-> style]]

IsShadowEffect(e) == e.type \in {"DROP_SHADOW", "INNER_SHADOW"} /\ IsVisible(e)

\* `${inset}${x}px ${y}px ${blur}px ${spread}px ${color}`
ShadowDescriptor(effect) ==
    LET x == IF Has(effect, "offset") THEN effect.offset.x ELSE 0
        y == IF Has(effect, "offset") THEN effect.offset.y ELSE 0
        blur == IF Has(effect, "radius") THEN effect.radius ELSE 0
        spread == IF Has(effect, "spread") THEN effect.spread ELSE 0
        color == IF Has(effect, "color")
                 THEN rgbaToString(effect.color.r, effect.color.g,
                                   effect.color.b, effect.color.a)
                 ELSE "rgba(0,0,0,0.1)"
        inset == IF effect.type = "INNER_SHADOW" THEN "inset " ELSE ""
    IN  inset \o ToString(x) \o "px " \o ToString(y) \o "px " \o ToString(blur)
        \o "px " \o ToString(spread) \o "px " \o color

\* extractShadow that describes the first shadow effect only
extractShadowFirstOnly(raw, t, useTokens) ==
    IF ~Has(raw, "effects") \/ Len(SelectSeq(raw.effects, IsShadowEffect)) = 0
    THEN [te |-> t]
    ELSE IF useTokens
    THEN [te |-> addShadow(t, ShadowDescriptor(SelectSeq(raw.effects, IsShadowEffect)[1])).te,
          val |-> addShadow(t, ShadowDescriptor(SelectSeq(raw.effects, IsShadowEffect)[1])).token]
    ELSE [te |-> t, val |-> ShadowDescriptor(SelectSeq(raw.effects, IsShadowEffect)[1])]

extractShadow(raw, t, useTokens) ==
    IF ~Has(raw, "effects") \/ Len(raw.effects) = 0 THEN [te |-> t]
    ELSE
    LET shadowEffects == SelectSeq(raw.effects, IsShadowEffect) IN
    IF Len(shadowEffects) = 0 THEN [te |-> t]
    ELSE
    LET shadows == [i \in 1..Len(shadowEffects) |-> ShadowDescriptor(shadowEffects[i])]
        shadowValue == Join(shadows, ", ")
        added == addShadow(t, shadowValue)
    IN  IF useTokens THEN [te |-> added.te, val |-> added.token]
        ELSE [te |-> t, val |-> shadowValue]

extractRadius(raw) ==
    IF Has(raw, "cornerRadius") /\ raw.cornerRadius > 0
    THEN <<Num(raw.cornerRadius)>>
    ELSE IF Has(raw, "topLeftRadius") \/ Has(raw, "topRightRadius")
            \/ Has(raw, "bottomRightRadius") \/ Has(raw, "bottomLeftRadius")
    THEN LET tl == IF Has(raw, "topLeftRadius") THEN raw.topLeftRadius ELSE 0
             tr == IF Has(raw, "topRightRadius") THEN raw.topRightRadius ELSE 0
             br == IF Has(raw, "bottomRightRadius") THEN raw.bottomRightRadius ELSE 0
             bl == IF Has(raw, "bottomLeftRadius") THEN raw.bottomLeftRadius ELSE 0
         IN  IF tl = tr /\ tr = br /\ br = bl
             THEN (IF tl > 0 THEN <<Num(tl)>> ELSE <<>>)
             ELSE IF tl > 0 \/ tr > 0 \/ br > 0 \/ bl > 0
             THEN <<Tup(<<tl, tr, br, bl>>)>>
             ELSE <<>>
    ELSE <<>>

\* extractPadding with the tuple written from the left side on
extractPaddingLeftFirst(raw) ==
    IF ~Has(raw, "paddingTop") /\ ~Has(raw, "paddingRight")
       /\ ~Has(raw, "paddingBottom") /\ ~Has(raw, "paddingLeft")
    THEN <<>>
    ELSE IF raw.paddingTop = 0 /\ raw.paddingRight = 0
            /\ raw.paddingBottom = 0 /\ raw.paddingLeft = 0
    THEN <<>>
    ELSE IF raw.paddingTop = raw.paddingRight /\ raw.paddingRight = raw.paddingBottom
            /\ raw.paddingBottom = raw.paddingLeft
    THEN <<Num(raw.paddingTop)>>
    ELSE <<Tup(<<raw.paddingLeft, raw.paddingTop, raw.paddingRight, raw.paddingBottom>>)>>

\* <<the padding>> or <<>> for undefined
extractPadding(raw) ==
    IF ~Has(raw, "paddingTop") /\ ~Has(raw, "paddingRight")
       /\ ~Has(raw, "paddingBottom") /\ ~Has(raw, "paddingLeft")
    THEN <<>>
    ELSE
    LET t == IF Has(raw, "paddingTop") THEN raw.paddingTop ELSE 0
        r == IF Has(raw, "paddingRight") THEN raw.paddingRight ELSE 0
        b == IF Has(raw, "paddingBottom") THEN raw.paddingBottom ELSE 0
        l == IF Has(raw, "paddingLeft") THEN raw.paddingLeft ELSE 0
    IN  IF t = 0 /\ r = 0 /\ b = 0 /\ l = 0 THEN <<>>
        ELSE IF t = r /\ r = b /\ b = l THEN <<Num(t)>>
        ELSE <<Tup(<<t, r, b, l>>)>>

extractWidth(raw) ==
    IF Has(raw, "layoutMode")
       /\ (IF raw.layoutMode = "HORIZONTAL" THEN raw.primaryAxisSizingMode
           ELSE raw.counterAxisSizingMode) = "AUTO"
    THEN Str("hug")
    ELSE Num(raw.width)

extractHeight(raw) ==
    IF Has(raw, "layoutMode")
       /\ (IF raw.layoutMode = "HORIZONTAL" THEN raw.counterAxisSizingMode
           ELSE raw.primaryAxisSizingMode) = "AUTO"
    THEN Str("hug")
    ELSE Num(raw.height)

(***************************************************************************)
(* patterns.ts                                                             *)
(***************************************************************************)
\* PATTERN_NAME_HINTS, in the order of Object.entries
PATTERN_NAME_HINTS ==
    << [pattern |-> "grid", regex |-> << <<"grid">>, <<"cards">>, <<"products">>, <<"gallery">> >>],
       [pattern |-> "list", regex |-> << <<"list">>, <<"items">>, <<"rows">>, <<"feed">> >>],
       [pattern |-> "carousel", regex |-> << <<"carousel">>, <<"slider">>, <<"swiper">>, <<"slides">> >>],
       [pattern |-> "tabs", regex |-> << <<"tabs">>, <<"tabbar">>, <<"tab", "list">>, <<"segments">> >>],
       [pattern |-> "accordion", regex |-> << <<"accordion">>, <<"collapse">>, <<"expandable">>, <<"faq">> >>],
       [pattern |-> "form", regex |-> << <<"form">>, <<"login">>, <<"signup">>, <<"register">>, <<"checkout">>, <<"contact">> >>],
       [pattern |-> "table", regex |-> << <<"table">>, <<"datagrid">>, <<"data", "table">> >>],
       [pattern |-> "breadcrumbs", regex |-> << <<"breadcrumb">>, <<"crumbs">>, <<"path">> >>],
       [pattern |-> "pagination", regex |-> << <<"pagination">>, <<"pager">>, <<"pages">> >>],
       [pattern |-> "stepper", regex |-> << <<"stepper">>, <<"steps">>, <<"wizard">>, <<"progress">> >>],
       [pattern |-> "gallery", regex |-> << <<"gallery">>, <<"photos">>, <<"images">> >>] >>

\* <<the first pattern whose regex matches>> or <<>>
detectPatternFromName(name) ==
    LET hits == SelectSeqIdx(PATTERN_NAME_HINTS,
                             LAMBDA h : RegexTestI(h.regex, name), 1)
    IN  IF Len(hits) = 0 THEN <<>> ELSE <<PATTERN_NAME_HINTS[hits[1]].pattern>>

Abs(x) == IF x < 0 THEN -x ELSE x

sizeTolerance == 10

ChildrenOf(raw) == IF Has(raw, "children") THEN raw.children ELSE <<>>

areSimilarNodes(a, b) ==
    /\ a.type = b.type
    /\ ~(Abs(a.width - b.width) > sizeTolerance \/ Abs(a.height - b.height) > sizeTolerance)
    /\ ~(Abs(Len(ChildrenOf(a)) - Len(ChildrenOf(b))) > 1)

\* a count that takes the last child for the reference
countSimilarChildrenToLast(children) ==
    IF Len(children) < 2 THEN 0
    ELSE 1 + Cardinality({i \in 1..(Len(children) - 1) :
                             areSimilarNodes(children[Len(children)], children[i])})

countSimilarChildren(children) ==
    IF Len(children) < 2 THEN 0
    ELSE 1 + Cardinality({i \in 2..Len(children) : areSimilarNodes(children[1], children[i])})

\* similarCount >= children.length * 0.7
hasMostlySimilar(children) == 10 * countSimilarChildren(children) >= 7 * Len(children)

Infinity == [infinity |-> TRUE]

\* Math.floor(a / b) and Math.ceil(a / b) for a >= 0, b > 0
FloorDiv(a, b) == a \div b
CeilDiv(a, b) == (a + b - 1) \div b

ItemSpacingOf(raw) == IF Has(raw, "itemSpacing") THEN raw.itemSpacing ELSE 0

detectGridPattern(raw) ==
    IF Len(ChildrenOf(raw)) < 2 THEN <<>>
    ELSE
    LET isWrap == Has(raw, "layoutWrap") /\ raw.layoutWrap = "WRAP" IN
    IF isWrap /\ hasMostlySimilar(raw.children) /\ Len(raw.children) >= 4
    THEN LET gap == ItemSpacingOf(raw)
             columns == FloorDiv(raw.width + gap, raw.children[1].width + gap)
             \* Math.ceil(n / 0) is Infinity, and Math.max(1, Infinity) is Infinity
             rows == IF columns = 0 THEN Infinity
                     ELSE LET r == CeilDiv(Len(raw.children), columns)
                          IN  IF r < 1 THEN 1 ELSE r
         IN  <<[pattern |-> "grid", itemCount |-> Len(raw.children),
                columns |-> IF columns < 1 THEN 1 ELSE columns,
                rows |-> rows]>>
    ELSE <<>>

\* detectListPattern that asks for four children or more
detectListPatternFromFour(raw) ==
    IF Len(ChildrenOf(raw)) < 4 THEN <<>>
    ELSE IF Has(raw, "layoutMode") /\ raw.layoutMode = "VERTICAL"
            /\ hasMostlySimilar(raw.children)
    THEN <<[pattern |-> "list", itemCount |-> Len(raw.children)]>>
    ELSE <<>>

detectListPattern(raw) ==
    IF Len(ChildrenOf(raw)) < 2 THEN <<>>
    ELSE
    LET isVertical == Has(raw, "layoutMode") /\ raw.layoutMode = "VERTICAL" IN
    IF isVertical /\ hasMostlySimilar(raw.children) /\ Len(raw.children) >= 2
    THEN <<[pattern |-> "list", itemCount |-> Len(raw.children)]>>
    ELSE <<>>

RECURSIVE SumWidths(_)
SumWidths(children) ==
    IF Len(children) = 0 THEN 0 ELSE children[1].width + SumWidths(Tail(children))

detectCarouselPattern(raw) ==
    IF Len(ChildrenOf(raw)) < 2 THEN <<>>
    ELSE
    LET isHorizontal == Has(raw, "layoutMode") /\ raw.layoutMode = "HORIZONTAL"
        hasOverflow == Has(raw, "clipsContent") /\ raw.clipsContent = TRUE
        totalWidth == SumWidths(raw.children)
                      + ItemSpacingOf(raw) * (Len(raw.children) - 1)
        \* totalWidth > raw.width * 1.2
        overflowsContainer == 10 * totalWidth > 12 * raw.width
    IN  IF isHorizontal /\ hasOverflow /\ hasMostlySimilar(raw.children)
           /\ overflowsContainer
        THEN <<[pattern |-> "carousel", itemCount |-> Len(raw.children)]>>
        ELSE <<>>

\* detectTabsPattern without the limit of eight children
detectTabsPatternUnbounded(raw) ==
    IF Len(ChildrenOf(raw)) < 2 THEN <<>>
    ELSE
    LET ch == raw.children
        isHorizontal == Has(raw, "layoutMode") /\ raw.layoutMode = "HORIZONTAL"
        hasTextChildren ==
            \A i \in 1..Len(ch) :
                \/ ch[i].type = "TEXT"
                \/ \E j \in 1..Len(ChildrenOf(ch[i])) : ch[i].children[j].type = "TEXT"
        allSimilarSize == \A i \in 1..Len(ch) : Abs(ch[i].height - ch[1].height) < 10
    IN  IF isHorizontal /\ hasTextChildren /\ allSimilarSize
        THEN <<[pattern |-> "tabs", itemCount |-> Len(ch)]>>
        ELSE <<>>

detectTabsPattern(raw) ==
    IF Len(ChildrenOf(raw)) < 2 THEN <<>>
    ELSE
    LET ch == raw.children
        isHorizontal == Has(raw, "layoutMode") /\ raw.layoutMode = "HORIZONTAL"
        hasTextChildren ==
            \A i \in 1..Len(ch) :
                \/ ch[i].type = "TEXT"
                \/ \E j \in 1..Len(ChildrenOf(ch[i])) : ch[i].children[j].type = "TEXT"
        allSimilarSize == \A i \in 1..Len(ch) : Abs(ch[i].height - ch[1].height) < 10
    IN  IF isHorizontal /\ hasTextChildren /\ allSimilarSize /\ Len(ch) <= 8
        THEN <<[pattern |-> "tabs", itemCount |-> Len(ch)]>>
        ELSE <<>>

\* checkNode of detectFormPattern: <<input-like (0 or 1), button-like (0 or 1)>>
FormCheckNode(node) ==
    LET name == ToLowerCase(node.name)
        hasBorder == Has(node, "strokes") /\ Len(node.strokes) > 0
        hasRadius == Has(node, "cornerRadius") /\ node.cornerRadius > 0
        inputLike ==
            \/ Includes(name, "input") \/ Includes(name, "field") \/ Includes(name, "text")
            \/ (hasBorder /\ hasRadius /\ Len(ChildrenOf(node)) = 1)
        buttonLike ==
            Includes(name, "button") \/ Includes(name, "submit") \/ Includes(name, "btn")
    IN  <<IF inputLike THEN 1 ELSE 0, IF buttonLike THEN 1 ELSE 0>>

RECURSIVE FormCount(_, _)
\* the sum of component k of FormCheckNode over the nodes
FormCount(nodes, k) ==
    IF Len(nodes) = 0 THEN 0 ELSE FormCheckNode(nodes[1])[k] + FormCount(Tail(nodes), k)

RECURSIVE ChildrenAndGrandChildren(_)
ChildrenAndGrandChildren(children) ==
    IF Len(children) = 0 THEN <<>>
    ELSE <<children[1]>> \o ChildrenOf(children[1])
         \o ChildrenAndGrandChildren(Tail(children))

detectFormPattern(raw) ==
    IF Len(ChildrenOf(raw)) < 2 THEN <<>>
    ELSE
    LET isVertical == Has(raw, "layoutMode") /\ raw.layoutMode = "VERTICAL"
        nodes == ChildrenAndGrandChildren(raw.children)
        inputLikeCount == FormCount(nodes, 1)
        buttonLikeCount == FormCount(nodes, 2)
    IN  IF isVertical /\ inputLikeCount >= 2 /\ buttonLikeCount >= 1
        THEN <<[pattern |-> "form", itemCount |-> inputLikeCount + buttonLikeCount]>>
        ELSE <<>>

Digits == "0123456789"

\* /^\d+$/
IsNumeric(text) ==
    Len(text) > 0 /\ \A i \in 1..Len(text) : IndexIn(CharAt(text, i), Digits) # 0

\* /^step/i
IsStepPrefixed(text) == StartsWithAt(ToLowerCase(text), 1, "step")

HasCharacters(node) ==
    node.type = "TEXT" /\ Has(node, "characters") /\ Len(node.characters) > 0

RECURSIVE StepperCount(_)
StepperCount(children) ==
    IF Len(children) = 0 THEN 0
    ELSE LET child == children[1]
             own == IF HasCharacters(child)
                       /\ (IsNumeric(Trim(child.characters))
                           \/ IsStepPrefixed(Trim(child.characters)))
                    THEN 1 ELSE 0
             gc == ChildrenOf(child)
             inner == Cardinality({j \in 1..Len(gc) :
                          HasCharacters(gc[j]) /\ IsNumeric(Trim(gc[j].characters))})
         IN  own + inner + StepperCount(Tail(children))

\* detectStepperPattern that counts the children holding such a text, not the
\* texts
detectStepperPatternPerChild(raw) ==
    IF Len(ChildrenOf(raw)) < 2 THEN <<>>
    ELSE
    LET isHorizontal == Has(raw, "layoutMode") /\ raw.layoutMode = "HORIZONTAL"
        numberCount ==
            Cardinality({c \in 1..Len(raw.children) :
                            StepperCount(<<raw.children[c]>>) > 0})
    IN
    IF isHorizontal /\ numberCount >= 2
       /\ Len(raw.children) >= 2 /\ Len(raw.children) <= 7
    THEN <<[pattern |-> "stepper", itemCount |-> Len(raw.children)]>>
    ELSE <<>>

detectStepperPattern(raw) ==
    IF Len(ChildrenOf(raw)) < 2 THEN <<>>
    ELSE
    LET isHorizontal == Has(raw, "layoutMode") /\ raw.layoutMode = "HORIZONTAL" IN
    IF isHorizontal /\ StepperCount(raw.children) >= 2
       /\ Len(raw.children) >= 2 /\ Len(raw.children) <= 7
    THEN <<[pattern |-> "stepper", itemCount |-> Len(raw.children)]>>
    ELSE <<>>

NameHintInfo(raw, nameHint) ==
    LET baseInfo == [pattern |-> nameHint] IN
    IF Has(raw, "children")
    THEN LET counted == baseInfo @@ [itemCount |-> Len(raw.children)] IN
         IF nameHint = "grid" /\ Has(raw, "layoutWrap") /\ raw.layoutWrap = "WRAP"
            /\ Len(raw.children) > 0
         THEN LET gap == ItemSpacingOf(raw)
                  columns == FloorDiv(raw.width + gap, raw.children[1].width + gap)
                  clamped == IF columns < 1 THEN 1 ELSE columns
              IN  counted @@ [columns |-> clamped,
                              rows |-> CeilDiv(Len(raw.children), clamped)]
         ELSE counted
    ELSE baseInfo

\* detectPattern with the structural detectors asked before the name hint
detectPatternStructureFirst(raw) ==
    IF Len(detectGridPattern(raw)) > 0 THEN detectGridPattern(raw)
    ELSE IF Len(detectCarouselPattern(raw)) > 0 THEN detectCarouselPattern(raw)
    ELSE IF Len(detectTabsPattern(raw)) > 0 THEN detectTabsPattern(raw)
    ELSE IF Len(detectStepperPattern(raw)) > 0 THEN detectStepperPattern(raw)
    ELSE IF Len(detectFormPattern(raw)) > 0 THEN detectFormPattern(raw)
    ELSE IF Len(detectListPattern(raw)) > 0 THEN detectListPattern(raw)
    ELSE IF Len(detectPatternFromName(raw.name)) > 0
    THEN <<NameHintInfo(raw, detectPatternFromName(raw.name)[1])>>
    ELSE <<>>

\* detectPattern with the stepper detector asked before the tabs detector
detectPatternStepperFirst(raw) ==
    IF Len(detectPatternFromName(raw.name)) > 0
    THEN <<NameHintInfo(raw, detectPatternFromName(raw.name)[1])>>
    ELSE IF Len(detectGridPattern(raw)) > 0 THEN detectGridPattern(raw)
    ELSE IF Len(detectCarouselPattern(raw)) > 0 THEN detectCarouselPattern(raw)
    ELSE IF Len(detectStepperPattern(raw)) > 0 THEN detectStepperPattern(raw)
    ELSE IF Len(detectTabsPattern(raw)) > 0 THEN detectTabsPattern(raw)
    ELSE IF Len(detectFormPattern(raw)) > 0 THEN detectFormPattern(raw)
    ELSE IF Len(detectListPattern(raw)) > 0 THEN detectListPattern(raw)
    ELSE <<>>

\* <<the PatternInfo>> or <<>> for undefined
detectPattern(raw) ==
    LET nameHint == detectPatternFromName(raw.name) IN
    IF Len(nameHint) > 0 THEN <<NameHintInfo(raw, nameHint[1])>>
    ELSE IF Len(detectGridPattern(raw)) > 0 THEN detectGridPattern(raw)
    ELSE IF Len(detectCarouselPattern(raw)) > 0 THEN detectCarouselPattern(raw)
    ELSE IF Len(detectTabsPattern(raw)) > 0 THEN detectTabsPattern(raw)
    ELSE IF Len(detectStepperPattern(raw)) > 0 THEN detectStepperPattern(raw)
    ELSE IF Len(detectFormPattern(raw)) > 0 THEN detectFormPattern(raw)
    ELSE IF Len(detectListPattern(raw)) > 0 THEN detectListPattern(raw)
    ELSE <<>>

(***************************************************************************)
(* parser.ts: parseNode. A scene node is a record of the properties the    *)
(* Figma node has ('k' in node is Has(node, "k")); node.mixed names the    *)
(* properties whose value is figma.mixed; node.segments is what            *)
(* getStyledTextSegments returns. What the Figma API answers is part of    *)
(* the scene: node.mainComponent is the outcome of getMainComponentAsync   *)
(* (the component, Null, or [error |-> message] when the call rejects), an *)
(* action's destination is the outcome of figma.getNodeById for its        *)
(* destinationId, and a node with an error field is one whose properties   *)
(* cannot be read (every read of it throws Error(message)). An exception   *)
(* that leaves a function is the value Thrown(message). Rotation, blend    *)
(* mode, description, plugin data and developer notes are not read in this *)
(* part of the model.                                                      *)
(***************************************************************************)
IsMixed(node, key) == Has(node, "mixed") /\ key \in node.mixed

Throws(x) == Has(x, "error")
Thrown(message) == [thrown |-> message]
IsThrown(x) == Has(x, "thrown")

\* a parser that takes every layer for a visible one
isVisibleNodeAlways(node) == TRUE

isVisibleNode(node) == node.visible

extractPaints(node, key) ==
    IF IsMixed(node, key) THEN <<>> ELSE SelectSeq(node[key], IsVisible)

extractEffects(node) ==
    IF IsMixed(node, "effects") THEN <<>> ELSE SelectSeq(node.effects, IsVisible)

Field(cond, key, val) == IF cond THEN key :> val ELSE <<>>

ParseLayout(node) ==
    IF ~Has(node, "layoutMode") THEN <<>>
    ELSE (IF node.layoutMode # "NONE"
          THEN [layoutMode |-> node.layoutMode,
                primaryAxisSizingMode |-> node.primaryAxisSizingMode,
                counterAxisSizingMode |-> node.counterAxisSizingMode,
                primaryAxisAlignItems |-> node.primaryAxisAlignItems,
                counterAxisAlignItems |-> node.counterAxisAlignItems,
                paddingLeft |-> node.paddingLeft,
                paddingRight |-> node.paddingRight,
                paddingTop |-> node.paddingTop,
                paddingBottom |-> node.paddingBottom,
                itemSpacing |-> node.itemSpacing]
               @@ Field(Has(node, "layoutWrap"), "layoutWrap", node.layoutWrap)
               @@ Field(Has(node, "layoutGrow"), "layoutGrow", node.layoutGrow)
          ELSE <<>>)
         @@ Field(Has(node, "clipsContent"), "clipsContent", node.clipsContent)

ParseFills(node) ==
    IF ~Has(node, "fills") THEN <<>>
    ELSE LET fills == extractPaints(node, "fills")
             image == Find(fills, LAMBDA f : f.type = "IMAGE")
         IN  [fills |-> fills]
             @@ Field(Len(image) > 0 /\ Has(image[1], "imageRef"),
                      "imageRef", image[1].imageRef)

ParseStrokes(node) ==
    IF ~Has(node, "strokes") THEN <<>>
    ELSE [strokes |-> extractPaints(node, "strokes")]
         @@ Field(Has(node, "strokeWeight") /\ ~IsMixed(node, "strokeWeight"),
                  "strokeWeight", node.strokeWeight)
         @@ Field(Has(node, "dashPattern") /\ Len(node.dashPattern) > 0,
                  "dashPattern", node.dashPattern)

ParseCornerRadius(node) ==
    IF ~Has(node, "cornerRadius") THEN <<>>
    ELSE IF ~IsMixed(node, "cornerRadius") THEN [cornerRadius |-> node.cornerRadius]
    ELSE [topLeftRadius |-> node.topLeftRadius,
          topRightRadius |-> node.topRightRadius,
          bottomRightRadius |-> node.bottomRightRadius,
          bottomLeftRadius |-> node.bottomLeftRadius]

ParseText(node) ==
    IF node.type # "TEXT" THEN <<>>
    ELSE [characters |-> node.characters,
          textAlignHorizontal |-> node.textAlignHorizontal]
         @@ Field(~IsMixed(node, "fontSize"), "fontSize", node.fontSize)
         @@ Field(~IsMixed(node, "fontName"), "fontName", node.fontName)
         @@ Field(~IsMixed(node, "fontWeight"), "fontWeight", node.fontWeight)
         @@ Field(~IsMixed(node, "textDecoration") /\ node.textDecoration # "NONE",
                  "textDecoration", node.textDecoration)
         @@ Field(Len(node.segments) > 1, "styledTextSegments", node.segments)

\* the main component of an instance; a rejected lookup is caught and ignored
ParseInstance(node) ==
    IF node.type # "INSTANCE" THEN <<>>
    ELSE IF Throws(node.mainComponent) \/ node.mainComponent = Null THEN <<>>
    ELSE [mainComponent |->
            [name |-> node.mainComponent.name]
            @@ Field(node.mainComponent.description # "", "description",
                     node.mainComponent.description)
            @@ Field(Has(node, "variantProperties"), "variantProperties",
                     node.variantProperties)]

\* a lookup that falls back on the id when no node is found
DestinationNameOrId(action) ==
    IF Throws(action.destination) \/ action.destination = Null
    THEN [destinationName |-> action.destinationId]
    ELSE [destinationName |-> action.destination.name]

\* the name of the node figma.getNodeById finds; a throwing lookup is caught
DestinationName(action) ==
    IF Throws(action.destination) \/ action.destination = Null THEN <<>>
    ELSE [destinationName |-> action.destination.name]

\* reactionData of one reaction that has an action and a trigger
ParseReaction(reaction) ==
    [trigger |-> reaction.trigger.type, action |-> reaction.action.type]
    @@ (IF /\ reaction.action.type = "NODE"
           /\ Has(reaction.action, "destinationId")
           /\ reaction.action.destinationId # ""
        THEN [destinationId |-> reaction.action.destinationId]
             @@ DestinationName(reaction.action)
        ELSE <<>>)
    @@ Field(reaction.action.type = "URL" /\ Has(reaction.action, "url"),
             "url", reaction.action.url)
    @@ Field(Has(reaction.action, "transition"),
             "transition", reaction.action.transition.type)

HasActionAndTrigger(reaction) == Has(reaction, "action") /\ Has(reaction, "trigger")

ReactionsOf(reactions) == [i \in 1..Len(reactions) |-> ParseReaction(reactions[i])]

ParseReactions(node) ==
    IF ~Has(node, "reactions") THEN <<>>
    ELSE Field(Len(SelectSeq(node.reactions, HasActionAndTrigger)) > 0, "reactions",
               ReactionsOf(SelectSeq(node.reactions, HasActionAndTrigger)))

\* parseNode up to the loop over the children
ParseOwn(node) ==
    [id |-> node.id, name |-> node.name, type |-> node.type,
     x |-> node.x, y |-> node.y, width |-> node.width, height |-> node.height,
     visible |-> node.visible]
    @@ Field(Has(node, "opacity") /\ node.opacity # 1000, "opacity", node.opacity)
    @@ ParseLayout(node)
    @@ Field(Has(node, "constraints"), "constraints", node.constraints)
    @@ Field(Has(node, "layoutPositioning"), "layoutPositioning", node.layoutPositioning)
    @@ ParseFills(node)
    @@ ParseStrokes(node)
    @@ ParseCornerRadius(node)
    @@ Field(Has(node, "effects"), "effects", extractEffects(node))
    @@ ParseText(node)
    @@ ParseInstance(node)
    @@ ParseReactions(node)

RECURSIVE parseNode(_, _, _)
RECURSIVE ParseChildren(_, _, _, _, _)

\* childData of child i, with its place among its siblings
ChildRecord(childData, i, children, own) ==
    [orderIndex |-> i - 1, siblingCount |-> Len(children)]
    @@ Field(Has(own, "layoutMode"), "parentLayoutMode", own.layoutMode)
    @@ childData

\* a loop that goes on to the next child when a child could not be parsed
ChildrenAfterSkipping(childData, rest, i, children, own) ==
    IF IsThrown(childData) \/ childData = Null \/ IsThrown(rest) THEN rest
    ELSE [val |-> <<ChildRecord(childData, i, children, own)>> \o rest.val]

\* the loop continues after child i gave childData: an exception anywhere in
\* the loop leaves it at once, nothing around the await catches it
ChildrenAfter(childData, rest, i, children, own) ==
    IF IsThrown(childData) THEN childData
    ELSE IF IsThrown(rest) \/ childData = Null THEN rest
    ELSE [val |-> <<ChildRecord(childData, i, children, own)>> \o rest.val]

\* the childrenData of the loop from child i on: [val |-> the records], or
\* the exception the loop threw
ParseChildren(children, i, opts, depth, own) ==
    IF i > Len(children) THEN [val |-> <<>>]
    ELSE ChildrenAfter(parseNode(children[i], opts, depth + 1),
                       ParseChildren(children, i + 1, opts, depth, own),
                       i, children, own)

\* a limit that already cuts at the depth it names
BeyondMaxDepthInclusive(opts, depth) == opts.maxDepth > 0 /\ depth >= opts.maxDepth

\* options.maxDepth > 0 && depth > options.maxDepth
BeyondMaxDepth(opts, depth) == opts.maxDepth > 0 /\ depth > opts.maxDepth

\* parseNode from its loop over the children on
ParseWithChildren(own, childrenData) ==
    IF IsThrown(childrenData) THEN childrenData
    ELSE IF Len(childrenData.val) > 0 THEN own @@ [children |-> childrenData.val]
    ELSE own

\* a parser that leaves out a layer it cannot read, as it does a hidden one
parseNodeTolerant(node, opts, depth) ==
    IF Throws(node) \/ ~isVisibleNode(node) \/ BeyondMaxDepth(opts, depth) THEN Null
    ELSE ParseWithChildren(ParseOwn(node),
             IF opts.includeChildren /\ Has(node, "children")
             THEN ParseChildren(node.children, 1, opts, depth, ParseOwn(node))
             ELSE [val |-> <<>>])

\* the RawNodeData, Null, or the exception thrown
parseNode(node, opts, depth) ==
    IF Throws(node) THEN Thrown(node.error)
    ELSE IF ~isVisibleNode(node) THEN Null
    ELSE IF BeyondMaxDepth(opts, depth) THEN Null
    ELSE ParseWithChildren(ParseOwn(node),
             IF opts.includeChildren /\ Has(node, "children")
             THEN ParseChildren(node.children, 1, opts, depth, ParseOwn(node))
             ELSE [val |-> <<>>])

(***************************************************************************)
(* transformer.ts: transformNode. Begin is the function up to the          *)
(* recursion into the children and Finish is what follows it; a text or an *)
(* image node returns before the recursion (leaf). Line height, letter     *)
(* spacing, text case, truncation, paragraph spacing, auto-resize, the     *)
(* crop rectangle, rotation, blend mode, aspect ratio and the devInfo      *)
(* block are not built.                                                    *)
(***************************************************************************)
\* a type table whose default is the vector
mapNodeTypeDefaultVector(figmaType) ==
    CASE figmaType = "FRAME" -> "frame"
      [] figmaType = "GROUP" -> "group"
      [] figmaType = "RECTANGLE" -> "rect"
      [] figmaType = "ELLIPSE" -> "ellipse"
      [] figmaType = "TEXT" -> "text"
      [] figmaType = "INSTANCE" -> "instance"
      [] figmaType \in {"COMPONENT", "COMPONENT_SET"} -> "frame"
      [] OTHER -> "vector"

mapNodeType(figmaType) ==
    CASE figmaType = "FRAME" -> "frame"
      [] figmaType = "GROUP" -> "group"
      [] figmaType = "RECTANGLE" -> "rect"
      [] figmaType = "ELLIPSE" -> "ellipse"
      [] figmaType = "TEXT" -> "text"
      [] figmaType = "VECTOR" -> "vector"
      [] figmaType = "INSTANCE" -> "instance"
      [] figmaType \in {"COMPONENT", "COMPONENT_SET"} -> "frame"
      [] figmaType \in {"LINE", "POLYGON", "STAR", "BOOLEAN_OPERATION"} -> "vector"
      [] OTHER -> "frame"

\* <<the mapped value>> or <<>> for undefined
mapJustify(raw) ==
    IF ~Has(raw, "primaryAxisAlignItems") THEN <<>>
    ELSE CASE raw.primaryAxisAlignItems = "MIN" -> <<"start">>
           [] raw.primaryAxisAlignItems = "CENTER" -> <<"center">>
           [] raw.primaryAxisAlignItems = "MAX" -> <<"end">>
           [] raw.primaryAxisAlignItems = "SPACE_BETWEEN" -> <<"between">>
           [] OTHER -> <<>>

mapAlign(raw) ==
    IF ~Has(raw, "counterAxisAlignItems") THEN <<>>
    ELSE CASE raw.counterAxisAlignItems = "MIN" -> <<"start">>
           [] raw.counterAxisAlignItems = "CENTER" -> <<"center">>
           [] raw.counterAxisAlignItems = "MAX" -> <<"end">>
           [] raw.counterAxisAlignItems = "BASELINE" -> <<"start">>
           [] OTHER -> <<>>

mapConstraintH(c) ==
    CASE c = "MIN" -> "left" [] c = "MAX" -> "right" [] c = "CENTER" -> "center"
      [] c = "STRETCH" -> "stretch" [] c = "SCALE" -> "scale" [] OTHER -> "left"

mapConstraintV(c) ==
    CASE c = "MIN" -> "top" [] c = "MAX" -> "bottom" [] c = "CENTER" -> "center"
      [] c = "STRETCH" -> "stretch" [] c = "SCALE" -> "scale" [] OTHER -> "top"

IsSolidVisible(f) == IsVisible(f) /\ f.type = "SOLID"

\* the color of a text node or of a styled segment: <<the hex color>> or <<>>
TextFillColor(x) ==
    IF ~Has(x, "fills") \/ Len(x.fills) = 0 THEN <<>>
    ELSE LET fill == Find(x.fills, IsSolidVisible) IN
         IF Len(fill) > 0 /\ Has(fill[1], "color")
         THEN <<rgbToHex(fill[1].color.r, fill[1].color.g, fill[1].color.b)>>
         ELSE <<>>

\* a field that is set when the optional value o (<<v>> or <<>>) is defined
Opt(key, o) == IF Len(o) > 0 THEN key :> o[1] ELSE <<>>

\* a field that is set when the extractor result r carries a value
Val(key, r) == IF Has(r, "val") THEN key :> r.val ELSE <<>>

\* ctx.useTokens ? ctx.tokenExtractor.add*(value) : value, added being the
\* extractor and the token the add* call gives
TokenOrLiteral(added, t, value, useTokens) ==
    IF useTokens THEN [te |-> added.te, val |-> added.token]
    ELSE [te |-> t, val |-> value]

\* the font of a text node or of a styled segment (hasFont: the guard of the source)
TextFont(hasFont, x, t, useTokens) ==
    IF hasFont
    THEN TokenOrLiteral(addFont(t, x.fontName.family), t, x.fontName.family, useTokens)
    ELSE [te |-> t]

\* the color field for the optional hex color (<<hex>> or <<>>)
TextColorOf(color, t, useTokens) ==
    IF Len(color) > 0
    THEN TokenOrLiteral(addColor(t, color[1]), t, color[1], useTokens)
    ELSE [te |-> t]

TextColor(x, t, useTokens) == TextColorOf(TextFillColor(x), t, useTokens)

SegmentHasFont(seg) == Has(seg, "fontName") /\ Len(seg.fontName.family) > 0

\* the segment object, given its font and then its color
SegmentObject(seg, font, color) ==
    [te |-> color.te,
     val |-> [text |-> seg.characters]
         @@ Val("font", font)
         @@ Field(SegmentHasFont(seg) /\ Includes(ToLowerCase(seg.fontName.style), "italic"),
                  "italic", TRUE)
         @@ Field(Has(seg, "fontSize") /\ seg.fontSize # 0, "size", seg.fontSize)
         @@ Field(Has(seg, "fontWeight") /\ seg.fontWeight # 0, "weight", seg.fontWeight)
         @@ Val("color", color)
         @@ Field(Has(seg, "textDecoration") /\ seg.textDecoration = "UNDERLINE",
                  "underline", TRUE)
         @@ Field(Has(seg, "textDecoration") /\ seg.textDecoration = "STRIKETHROUGH",
                  "strikethrough", TRUE)
         @@ Field(Has(seg, "hyperlink") /\ Len(seg.hyperlink.value) > 0,
                  "link", seg.hyperlink.value)]

SegmentAfterFont(seg, font, useTokens) ==
    SegmentObject(seg, font, TextColor(seg, font.te, useTokens))

\* one element of raw.styledTextSegments.map(...)
RichTextSegment(seg, t, useTokens) ==
    SegmentAfterFont(seg, TextFont(SegmentHasFont(seg), seg, t, useTokens), useTokens)

\* the result of a map whose callback uses the extractor: first, then the rest
ThreadCons(first, rest) == [te |-> rest.te, val |-> <<first.val>> \o rest.val]

RECURSIVE RichText(_, _, _)
RichTextFrom(segs, first, useTokens) ==
    ThreadCons(first, RichText(Tail(segs), first.te, useTokens))

RichText(segs, t, useTokens) ==
    IF Len(segs) = 0 THEN [te |-> t, val |-> <<>>]
    ELSE RichTextFrom(segs, RichTextSegment(segs[1], t, useTokens), useTokens)

\* the richText of a text node with more than one styled segment
TextRich(raw, t, useTokens) ==
    IF Has(raw, "styledTextSegments") /\ Len(raw.styledTextSegments) > 1
    THEN RichText(raw.styledTextSegments, t, useTokens)
    ELSE [te |-> t]

TextAlignField(raw) ==
    IF Has(raw, "textAlignHorizontal") /\ raw.textAlignHorizontal # "LEFT"
    THEN [textAlign |-> CASE raw.textAlignHorizontal = "CENTER" -> "center"
                          [] raw.textAlignHorizontal = "RIGHT" -> "right"
                          [] raw.textAlignHorizontal = "JUSTIFIED" -> "justify"
                          [] OTHER -> "left"]
    ELSE <<>>

\* the text node, given its font, then its color, then its richText
TextNode(raw, font, color, rich) ==
    [te |-> rich.te,
     node |-> [type |-> "text",
               content |-> IF Has(raw, "characters") THEN raw.characters ELSE ""]
         @@ Field(Len(raw.name) > 0, "name", raw.name)
         @@ Val("font", font)
         @@ Field(Has(raw, "fontSize") /\ raw.fontSize # 0, "size", raw.fontSize)
         @@ Field(Has(raw, "fontWeight") /\ raw.fontWeight # 0, "weight", raw.fontWeight)
         @@ Val("color", color)
         @@ TextAlignField(raw)
         @@ Field(Has(raw, "textDecoration") /\ raw.textDecoration # "NONE", "textDecor",
                  IF raw.textDecoration = "UNDERLINE" THEN "underline" ELSE "line-through")
         @@ Val("richText", rich)]

TextAfterColor(raw, font, color, useTokens) ==
    TextNode(raw, font, color, TextRich(raw, color.te, useTokens))

TextAfterFont(raw, font, useTokens) ==
    TextAfterColor(raw, font, TextColor(raw, font.te, useTokens), useTokens)

transformTextNode(raw, t, useTokens) ==
    TextAfterFont(raw, TextFont(Has(raw, "fontName"), raw, t, useTokens), useTokens)

transformImageNode(raw) ==
    LET imageFill == Find(raw.fills, LAMBDA f : f.type = "IMAGE")
        scaleMode == IF Has(imageFill[1], "scaleMode") THEN imageFill[1].scaleMode ELSE ""
        radius == extractRadius(raw)
    IN  [type |-> "img", w |-> extractWidth(raw), h |-> extractHeight(raw),
         nodeId |-> raw.id,
         originalSize |-> [w |-> raw.width, h |-> raw.height]]
        @@ Field(Len(raw.name) > 0, "name", raw.name)
        @@ Field(Len(raw.name) > 0, "alt", raw.name)
        @@ Field(Len(radius) > 0, "radius", radius[1])
        @@ Field(scaleMode \in {"FILL", "FIT", "STRETCH"}, "fit",
                 CASE scaleMode = "FILL" -> "cover" [] scaleMode = "FIT" -> "contain"
                   [] OTHER -> "fill")
        @@ Field(Has(raw, "imageRef") /\ Len(raw.imageRef) > 0, "imageRef", raw.imageRef)

hasImageFill(raw) ==
    Has(raw, "fills") /\ \E i \in 1..Len(raw.fills) : raw.fills[i].type = "IMAGE"

LayoutFields(raw) ==
    IF Has(raw, "layoutMode") /\ raw.layoutMode # "NONE"
    THEN LET padding == extractPadding(raw)
             justify == mapJustify(raw)
             align == mapAlign(raw)
         IN  [layout |-> IF raw.layoutMode = "HORIZONTAL" THEN "row" ELSE "col"]
             @@ Field(Has(raw, "itemSpacing") /\ raw.itemSpacing > 0, "gap", raw.itemSpacing)
             @@ Field(Len(padding) > 0, "p", padding[1])
             @@ Field(Len(justify) > 0 /\ justify # <<"start">>, "justify", justify[1])
             @@ Field(Len(align) > 0 /\ align # <<"start">>, "align", align[1])
             @@ Field(Has(raw, "layoutWrap") /\ raw.layoutWrap = "WRAP", "wrap", TRUE)
    ELSE <<>>

IsEffect(e, type) == e.type = type /\ IsVisible(e)

\* raw.effects?.find(type and visible) with a truthy radius: <<the radius>> or <<>>
BlurRadius(raw, type) ==
    IF ~Has(raw, "effects") THEN <<>>
    ELSE LET e == Find(raw.effects, LAMBDA x : IsEffect(x, type)) IN
         IF Len(e) > 0 /\ Has(e[1], "radius") /\ e[1].radius # 0
         THEN <<e[1].radius>> ELSE <<>>

OrderFields(raw) ==
    IF Has(raw, "orderIndex") /\ Has(raw, "siblingCount") /\ raw.siblingCount > 1
    THEN [order |-> raw.orderIndex]
         @@ Field(raw.orderIndex = 0, "isFirst", TRUE)
         @@ Field(raw.orderIndex = raw.siblingCount - 1, "isLast", TRUE)
    ELSE <<>>

OpacityField(raw) ==
    Field(Has(raw, "opacity") /\ raw.opacity < 1000, "opacity", RoundHundredths(raw.opacity))

\* the overflow written out whether or not the content is clipped
OverflowFieldAlways(raw) ==
    [overflow |-> IF Has(raw, "clipsContent") /\ raw.clipsContent THEN "hidden" ELSE "visible"]

OverflowField(raw) ==
    Field(Has(raw, "clipsContent") /\ raw.clipsContent, "overflow", "hidden")

IsAbsolute(raw) == Has(raw, "layoutPositioning") /\ raw.layoutPositioning = "ABSOLUTE"

PositionFields(raw) ==
    IF IsAbsolute(raw) THEN [pos |-> "abs", x |-> raw.x, y |-> raw.y] ELSE <<>>

ConstraintsOf(h, v) ==
    IF h # "left" \/ v # "top" THEN [constraints |-> [h |-> h, v |-> v]] ELSE <<>>

ConstraintsField(raw) ==
    IF Has(raw, "constraints")
    THEN ConstraintsOf(mapConstraintH(raw.constraints.horizontal),
                       mapConstraintV(raw.constraints.vertical))
    ELSE <<>>

(***************************************************************************)
(* semantic.ts                                                             *)
(***************************************************************************)
\* ROLE_PATTERNS, in the order of Object.entries
ROLE_PATTERNS ==
    << [role |-> "button", regex |-> << <<"btn">>, <<"button">>, <<"cta">>, <<"submit">>, <<"action">> >>],
       [role |-> "input", regex |-> << <<"input">>, <<"field">>, <<"textbox">>, <<"search">>, <<"textarea">> >>],
       [role |-> "card", regex |-> << <<"card">>, <<"tile">>, <<"item">>, <<"product">> >>],
       [role |-> "nav", regex |-> << <<"nav">>, <<"navigation">>, <<"menu">>, <<"sidebar">>, <<"breadcrumb">> >>],
       [role |-> "header", regex |-> << <<"header">>, <<"topbar">>, <<"appbar">>, <<"toolbar">> >>],
       [role |-> "footer", regex |-> << <<"footer">>, <<"bottom", "bar">> >>],
       [role |-> "modal", regex |-> << <<"modal">>, <<"dialog">>, <<"popup">>, <<"overlay">>, <<"drawer">>, <<"sheet">> >>],
       [role |-> "badge", regex |-> << <<"badge">>, <<"tag">>, <<"chip">>, <<"label">>, <<"pill">> >>],
       [role |-> "avatar", regex |-> << <<"avatar">>, <<"profile", "img">>, <<"profile", "image">>, <<"profile", "pic">>, <<"user", "img">>, <<"user", "image">> >>],
       [role |-> "icon", regex |-> << <<"icon">>, <<"ico">>, <<"svg">>, <<"glyph">> >>],
       [role |-> "link", regex |-> << <<"link">>, <<"anchor">>, <<"href">> >>],
       [role |-> "list", regex |-> << <<"list">>, <<"grid">>, <<"collection">>, <<"items">> >>],
       [role |-> "listItem", regex |-> << <<"list", "item">>, <<"row">>, <<"cell">> >>],
       [role |-> "tab", regex |-> << <<"tab">>, <<"segment">> >>],
       [role |-> "menu", regex |-> << <<"menu">>, <<"dropdown", "menu">>, <<"context", "menu">> >>],
       [role |-> "tooltip", regex |-> << <<"tooltip">>, <<"hint">>, <<"popover">> >>],
       [role |-> "dropdown", regex |-> << <<"dropdown">>, <<"select">>, <<"combobox">>, <<"picker">> >>] >>

STATE_PATTERNS ==
    << [state |-> "default", regex |-> << <<"default">>, <<"normal">>, <<"rest">> >>],
       [state |-> "hover", regex |-> << <<"hover">>, <<"hovered">>, <<"over">> >>],
       [state |-> "active", regex |-> << <<"active">>, <<"pressed">>, <<"down">> >>],
       [state |-> "disabled", regex |-> << <<"disabled">>, <<"inactive">>, <<"unavailable">> >>],
       [state |-> "focus", regex |-> << <<"focus">>, <<"focused">> >>],
       [state |-> "selected", regex |-> << <<"selected">>, <<"checked">>, <<"on">> >>],
       [state |-> "loading", regex |-> << <<"loading">>, <<"spinner">>, <<"skeleton">> >>] >>

\* the entries of a table whose regex matches the name, in table order
MatchingEntries(table, name) ==
    SelectSeqIdx(table, LAMBDA h : RegexTestI(h.regex, name), 1)

\* a table asked from its last entry to its first
detectSemanticRoleLastMatch(name) ==
    IF Len(MatchingEntries(ROLE_PATTERNS, name)) = 0 THEN <<>>
    ELSE <<ROLE_PATTERNS[MatchingEntries(ROLE_PATTERNS, name)[
                Len(MatchingEntries(ROLE_PATTERNS, name))]].role>>

\* <<the first role whose regex matches>> or <<>>
detectSemanticRole(name) ==
    IF Len(MatchingEntries(ROLE_PATTERNS, name)) = 0 THEN <<>>
    ELSE <<ROLE_PATTERNS[MatchingEntries(ROLE_PATTERNS, name)[1]].role>>

detectComponentState(name) ==
    IF Len(MatchingEntries(STATE_PATTERNS, name)) = 0 THEN <<>>
    ELSE <<STATE_PATTERNS[MatchingEntries(STATE_PATTERNS, name)[1]].state>>

\* f.visible !== false
NotHidden(f) == ~(Has(f, "visible") /\ f.visible = FALSE)

\* (raw.cornerRadius && raw.cornerRadius > 0)
HasCornerRadius(raw) == Has(raw, "cornerRadius") /\ raw.cornerRadius > 0

HasRadius(raw) ==
    HasCornerRadius(raw) \/ (Has(raw, "topLeftRadius") /\ raw.topLeftRadius > 0)

HasTextChild(raw) ==
    \E c \in 1..Len(ChildrenOf(raw)) : raw.children[c].type = "TEXT"

isLikelyButton(raw) ==
    LET hasBackground ==
            /\ Has(raw, "fills")
            /\ \E i \in 1..Len(raw.fills) :
                  /\ NotHidden(raw.fills[i])
                  /\ \/ raw.fills[i].type = "SOLID"
                     \/ StartsWithAt(raw.fills[i].type, 1, "GRADIENT")
        isAutoLayout == Has(raw, "layoutMode") /\ raw.layoutMode # "NONE"
        isSingleTextChild ==
            Len(ChildrenOf(raw)) = 1 /\ raw.children[1].type = "TEXT"
    IN  hasBackground /\ HasRadius(raw) /\ (HasTextChild(raw) \/ isSingleTextChild)
        /\ isAutoLayout

isLikelyInput(raw) ==
    LET hasBorder == /\ Has(raw, "strokes") /\ Len(raw.strokes) > 0
                     /\ Has(raw, "strokeWeight") /\ raw.strokeWeight # 0
        hasPlaceholderText ==
            \E c \in 1..Len(ChildrenOf(raw)) :
                LET child == raw.children[c] IN
                /\ child.type = "TEXT"
                /\ \/ Includes(ToLowerCase(child.name), "placeholder")
                   \/ Includes(ToLowerCase(child.name), "label")
                   \/ /\ Has(child, "fills")
                      \* f.opacity && f.opacity < 0.7, opacities being in hundredths
                      /\ \E i \in 1..Len(child.fills) :
                            /\ Has(child.fills[i], "opacity")
                            /\ child.fills[i].opacity # 0
                            /\ child.fills[i].opacity < 70
    IN  hasBorder /\ HasRadius(raw) /\ hasPlaceholderText

isLikelyCard(raw) ==
    LET hasBackground ==
            /\ Has(raw, "fills")
            /\ \E i \in 1..Len(raw.fills) :
                  NotHidden(raw.fills[i]) /\ raw.fills[i].type = "SOLID"
        hasShadow ==
            /\ Has(raw, "effects")
            /\ \E i \in 1..Len(raw.effects) :
                  raw.effects[i].type = "DROP_SHADOW" /\ NotHidden(raw.effects[i])
    IN  hasBackground /\ (hasShadow \/ HasCornerRadius(raw))
        /\ Len(ChildrenOf(raw)) > 1

isLikelyIcon(raw) ==
    LET isVector == raw.type \in {"VECTOR", "BOOLEAN_OPERATION", "LINE", "POLYGON", "STAR"}
        isSmall == raw.width <= 48 /\ raw.height <= 48
        isSquareish == Abs(raw.width - raw.height) <= 8
        hasOnlyVectorChildren ==
            /\ Has(raw, "children")
            /\ \A c \in 1..Len(raw.children) :
                  raw.children[c].type \in {"VECTOR", "BOOLEAN_OPERATION"}
    IN  isVector \/ (isSmall /\ isSquareish /\ hasOnlyVectorChildren)

isLikelyAvatar(raw) ==
    LET hasImage == Has(raw, "fills")
                    /\ \E i \in 1..Len(raw.fills) : raw.fills[i].type = "IMAGE"
        \* raw.cornerRadius >= raw.width / 2
        isCircular ==
            \/ raw.type = "ELLIPSE"
            \/ /\ Has(raw, "cornerRadius") /\ raw.cornerRadius # 0 /\ raw.width # 0
               /\ 2 * raw.cornerRadius >= raw.width
        isSmallSquare == /\ raw.width <= 120 /\ raw.height <= 120
                         /\ Abs(raw.width - raw.height) <= 4
    IN  (hasImage \/ isCircular) /\ isSmallSquare

interactiveRoles == {"button", "input", "link", "tab", "menu", "dropdown", "listItem"}

\* role is <<the role>> or <<>>
detectInteractive(raw, role) ==
    \/ Len(role) > 0 /\ role[1] \in interactiveRoles
    \/ RegexTestI(<< <<"click">>, <<"tap">>, <<"press">>, <<"toggle">>, <<"switch">> >>,
                  raw.name)

\* the structural heuristics of analyzeSemantics, asked when no keyword matched
StructuralRole(raw) ==
    IF isLikelyButton(raw) THEN <<"button">>
    ELSE IF isLikelyInput(raw) THEN <<"input">>
    ELSE IF isLikelyCard(raw) THEN <<"card">>
    ELSE IF isLikelyIcon(raw) THEN <<"icon">>
    ELSE IF isLikelyAvatar(raw) THEN <<"avatar">>
    ELSE <<>>

\* analyzeSemantics with the structural heuristics asked before the name
RoleOfStructureFirst(raw) ==
    IF Len(StructuralRole(raw)) > 0 THEN StructuralRole(raw)
    ELSE detectSemanticRole(raw.name)

\* the variable role of analyzeSemantics before the result is built
RoleOf(raw) ==
    IF Len(detectSemanticRole(raw.name)) > 0 THEN detectSemanticRole(raw.name)
    ELSE StructuralRole(raw)

\* the result object of analyzeSemantics, <<>> for undefined
SemanticResult(role, state, interactive) ==
    IF Len(role) = 0 /\ Len(state) = 0 /\ ~interactive THEN <<>>
    ELSE IF Len(role) = 0 /\ ~interactive /\ state[1] = "default" THEN <<>>
    ELSE << Opt("role", role)
            @@ Field(interactive, "interactive", TRUE)
            @@ Field(Len(state) > 0 /\ state # <<"default">>, "state", state[1]) >>

SemanticWith(raw, role) ==
    SemanticResult(role, detectComponentState(raw.name), detectInteractive(raw, role))

analyzeSemantics(raw) == SemanticWith(raw, RoleOf(raw))

(***************************************************************************)
(* responsive.ts                                                           *)
(***************************************************************************)
BREAKPOINT_PATTERNS ==
    << [breakpoint |-> "mobile", regex |-> << <<"mobile">>, <<"phone">>, <<"sm">>, <<"small">>, <<"320">>, <<"375">>, <<"390">>, <<"414">> >>],
       [breakpoint |-> "tablet", regex |-> << <<"tablet">>, <<"ipad">>, <<"md">>, <<"medium">>, <<"768">>, <<"834">>, <<"820">> >>],
       [breakpoint |-> "desktop", regex |-> << <<"desktop">>, <<"lg">>, <<"large">>, <<"1024">>, <<"1280">>, <<"1440">> >>],
       [breakpoint |-> "wide", regex |-> << <<"wide">>, <<"xl">>, <<"extra", "large">>, <<"1920">>, <<"2560">> >>] >>

detectBreakpointFromName(name) ==
    IF Len(MatchingEntries(BREAKPOINT_PATTERNS, name)) = 0 THEN <<>>
    ELSE <<BREAKPOINT_PATTERNS[MatchingEntries(BREAKPOINT_PATTERNS, name)[1]].breakpoint>>

\* BREAKPOINT_WIDTHS, for a width that is not negative
detectBreakpointFromWidth(width) ==
    IF width <= 767 THEN <<"mobile">>
    ELSE IF width <= 1023 THEN <<"tablet">>
    ELSE IF width <= 1919 THEN <<"desktop">>
    ELSE <<"wide">>

isFluidWidth(raw) ==
    IF /\ Has(raw, "layoutMode") /\ raw.layoutMode # "NONE"
       /\ (IF raw.layoutMode = "HORIZONTAL" THEN raw.counterAxisSizingMode
           ELSE raw.primaryAxisSizingMode) = "AUTO"
    THEN FALSE
    ELSE /\ Has(raw, "constraints")
         /\ raw.constraints.horizontal \in {"STRETCH", "SCALE"}

\* parentLayout is <<the parent's layout mode>> or <<>> for undefined
detectFlexGrow(raw, parentLayout) ==
    IF Len(parentLayout) = 0 \/ parentLayout = <<"NONE">> THEN <<>>
    ELSE IF Has(raw, "layoutGrow") /\ raw.layoutGrow > 0 THEN <<raw.layoutGrow>>
    ELSE <<>>

BreakpointOf(raw) ==
    IF Len(detectBreakpointFromName(raw.name)) > 0
    THEN detectBreakpointFromName(raw.name)
    ELSE IF raw.width >= 1024 /\ detectBreakpointFromWidth(raw.width) # <<"mobile">>
    THEN detectBreakpointFromWidth(raw.width)
    ELSE <<>>

ResponsiveInfo(raw, parentLayout) ==
    Opt("breakpoint", BreakpointOf(raw))
    @@ Field(isFluidWidth(raw), "fluid", TRUE)
    @@ Opt("grow", detectFlexGrow(raw, parentLayout))
    @@ Field(/\ Has(raw, "layoutGrow") /\ raw.layoutGrow = 0
             /\ Len(parentLayout) > 0 /\ parentLayout # <<"NONE">>, "shrink", 0)

\* <<the ResponsiveInfo>> or <<>> for undefined
analyzeResponsive(raw, parentLayout) ==
    IF DOMAIN ResponsiveInfo(raw, parentLayout) = {} THEN <<>>
    ELSE <<ResponsiveInfo(raw, parentLayout)>>

\* raw.parentLayoutMode
ParentLayoutMode(raw) ==
    IF Has(raw, "parentLayoutMode") THEN <<raw.parentLayoutMode>> ELSE <<>>

\* the node a generic (not image, not text) record has before its children are
\* visited, given the results of the three extractors that use the token
\* extractor: bg, then border, then shadow
GenericNode(raw, bg, border, shadow) ==
    [te |-> shadow.te,
     node |-> [type |-> mapNodeType(raw.type),
               w |-> extractWidth(raw), h |-> extractHeight(raw)]
         @@ Field(Len(raw.name) > 0, "name", raw.name)
         @@ LayoutFields(raw)
         @@ PositionFields(raw)
         @@ ConstraintsField(raw)
         @@ Val("bg", bg)
         @@ OpacityField(raw)
         @@ Opt("radius", extractRadius(raw))
         @@ Val("border", border)
         @@ Val("shadow", shadow)
         @@ Opt("blur", BlurRadius(raw, "BACKGROUND_BLUR"))
         @@ Opt("backdropBlur", BlurRadius(raw, "LAYER_BLUR"))
         @@ Field(IsAbsolute(raw) /\ Has(raw, "orderIndex"), "zIndex", raw.orderIndex + 1)
         @@ OrderFields(raw)
         @@ Opt("responsive", analyzeResponsive(raw, ParentLayoutMode(raw)))
         @@ OverflowField(raw)]

GenericAfterBorder(raw, bg, border, useTokens) ==
    GenericNode(raw, bg, border, extractShadow(raw, border.te, useTokens))

GenericAfterBackground(raw, bg, useTokens) ==
    GenericAfterBorder(raw, bg, extractBorder(raw, bg.te, useTokens), useTokens)

GenericOwn(raw, t, useTokens) ==
    GenericAfterBackground(raw, extractBackground(raw, t, useTokens), useTokens)

\* transformNode up to its recursion: leaf when it returns without visiting children
Begin(raw, t, useTokens) ==
    IF hasImageFill(raw)
    THEN [te |-> t, node |-> transformImageNode(raw), leaf |-> TRUE]
    ELSE IF raw.type = "TEXT"
    THEN transformTextNode(raw, t, useTokens) @@ [leaf |-> TRUE]
    ELSE GenericOwn(raw, t, useTokens) @@ [leaf |-> FALSE]

mapTrigger(trigger) ==
    CASE trigger \in {"ON_CLICK", "MOUSE_UP"} -> "click"
      [] trigger \in {"ON_HOVER", "MOUSE_ENTER", "MOUSE_LEAVE"} -> "hover"
      [] trigger \in {"ON_PRESS", "MOUSE_DOWN"} -> "press"
      [] trigger = "ON_DRAG" -> "drag"
      [] OTHER -> "click"

mapAction(action) ==
    CASE action = "NODE" -> "navigate"
      [] action = "OVERLAY" -> "overlay"
      [] action = "SWAP" -> "swap"
      [] action = "SCROLL_TO" -> "scroll"
      [] action = "URL" -> "url"
      [] action = "BACK" -> "back"
      [] action = "CLOSE" -> "close"
      [] OTHER -> "navigate"

\* componentName, variantProps and componentDesc of an instance
InstanceFields(raw) ==
    IF raw.type = "INSTANCE" /\ Has(raw, "mainComponent")
    THEN [componentName |-> raw.mainComponent.name]
         @@ Field(/\ Has(raw.mainComponent, "variantProperties")
                  /\ DOMAIN raw.mainComponent.variantProperties # {},
                  "variantProps", raw.mainComponent.variantProperties)
         @@ Field(Has(raw.mainComponent, "description"), "componentDesc",
                  raw.mainComponent.description)
    ELSE <<>>

\* one element of raw.reactions.map
Interaction(r) ==
    [trigger |-> mapTrigger(r.trigger), action |-> mapAction(r.action)]
    @@ Field(Has(r, "destinationName") /\ r.destinationName # "", "dest",
             r.destinationName)
    @@ Field(Has(r, "url") /\ r.url # "", "url", r.url)
    @@ Field(Has(r, "transition") /\ r.transition # "", "transition",
             ToLowerCase(r.transition))

InteractionsField(raw) ==
    IF Has(raw, "reactions")
    THEN [interactions |-> [i \in 1..Len(raw.reactions) |-> Interaction(raw.reactions[i])]]
    ELSE <<>>

\* Finish that attaches ch only when there are two children or more
FinishWithoutOnlyChild(raw, node, ch) ==
    node
    @@ Field(Len(ChildrenOf(raw)) > 1, "ch", ch)
    @@ InstanceFields(raw)
    @@ Opt("semantic", analyzeSemantics(raw))
    @@ InteractionsField(raw)
    @@ Opt("patternInfo", detectPattern(raw))

\* transformNode after its recursion, ch being the transformed children
Finish(raw, node, ch) ==
    node
    @@ Field(Len(ChildrenOf(raw)) > 0, "ch", ch)
    @@ InstanceFields(raw)
    @@ Opt("semantic", analyzeSemantics(raw))
    @@ InteractionsField(raw)
    @@ Opt("patternInfo", detectPattern(raw))

RECURSIVE transformNode(_, _, _)
RECURSIVE TransformChildren(_, _, _)

\* raw.children.map((child) => transformNode(child, ctx))
TransformChildren(children, t, useTokens) ==
    IF Len(children) = 0 THEN [te |-> t, val |-> <<>>]
    ELSE LET first == transformNode(children[1], t, useTokens)
             rest == TransformChildren(Tail(children), first.te, useTokens)
         IN  [te |-> rest.te, val |-> <<first.node>> \o rest.val]

\* the function as a whole: the extractor after the call and the ExportNode
transformNode(raw, t, useTokens) ==
    LET b == Begin(raw, t, useTokens) IN
    IF b.leaf THEN [te |-> b.te, node |-> b.node]
    ELSE LET kids == TransformChildren(ChildrenOf(raw), b.te, useTokens) IN
         [te |-> kids.te, node |-> Finish(raw, b.node, kids.val)]

transformTree(raw, useTokens) ==
    LET r == transformNode(raw, NewTokenExtractor, useTokens) IN
    [tree |-> r.node, tokens |-> getTokens(r.te)]

(***************************************************************************)
(* Scene nodes of the documents that are exported. A node carries the      *)
(* properties its Figma type has.                                          *)
(***************************************************************************)
RGB(r, g, b) == [r |-> r, g |-> g, b |-> b]
RGBA(r, g, b, a) == [r |-> r, g |-> g, b |-> b, a |-> a]

Red == RGB(510, 0, 0)
Blue == RGB(0, 0, 510)
Grey == RGB(255, 255, 255)

Solid(color) == [type |-> "SOLID", visible |-> TRUE, opacity |-> 100, color |-> color]
SolidAt(color, opacity) == [Solid(color) EXCEPT !.opacity = opacity]
Hidden(x) == [x EXCEPT !.visible = FALSE]
Image(hash) == [type |-> "IMAGE", visible |-> TRUE, opacity |-> 100,
                scaleMode |-> "FILL", imageRef |-> hash]
Linear(stops) == [type |-> "GRADIENT_LINEAR", visible |-> TRUE, opacity |-> 100,
                  gradientStops |-> stops, gradientTransform |-> [deg |-> 90]]
Stop(position, color) == [position |-> position, color |-> color]

Shadow(type, y, color) ==
    [type |-> type, visible |-> TRUE, radius |-> 4, spread |-> 0,
     offset |-> [x |-> 0, y |-> y], color |-> color]
LayerBlur == [type |-> "LAYER_BLUR", visible |-> TRUE, radius |-> 4]

\* what every scene node has
SceneNode(id, name, type, width, height) ==
    [id |-> id, name |-> name, type |-> type, x |-> 0, y |-> 0,
     width |-> width, height |-> height, visible |-> TRUE, opacity |-> 1000]

\* a RECTANGLE, ELLIPSE or other shape without children
Shape(id, name, type, width, height) ==
    SceneNode(id, name, type, width, height)
    @@ [fills |-> <<>>, strokes |-> <<>>, strokeWeight |-> 1, dashPattern |-> <<>>,
        cornerRadius |-> 0, effects |-> <<>>,
        constraints |-> [horizontal |-> "MIN", vertical |-> "MIN"]]

\* a FRAME, COMPONENT or INSTANCE without auto layout
Frame(id, name, type, width, height, children) ==
    Shape(id, name, type, width, height)
    @@ [layoutMode |-> "NONE", clipsContent |-> FALSE, children |-> children,
        paddingLeft |-> 0, paddingRight |-> 0, paddingTop |-> 0, paddingBottom |-> 0,
        itemSpacing |-> 0, primaryAxisSizingMode |-> "AUTO",
        counterAxisSizingMode |-> "FIXED", primaryAxisAlignItems |-> "MIN",
        counterAxisAlignItems |-> "MIN", layoutWrap |-> "NO_WRAP"]

\* the auto-layout properties of a frame: With(Frame(..), AutoLayout(..))
AutoLayout(mode, top, right, bottom, left, gap) ==
    [layoutMode |-> mode, paddingTop |-> top, paddingRight |-> right,
     paddingBottom |-> bottom, paddingLeft |-> left, itemSpacing |-> gap]

Text(id, name, characters, family, color) ==
    SceneNode(id, name, "TEXT", 80, 20)
    @@ [fills |-> <<Solid(color)>>, strokes |-> <<>>, strokeWeight |-> 1,
        effects |-> <<>>, characters |-> characters, textAlignHorizontal |-> "LEFT",
        fontSize |-> 16, fontName |-> [family |-> family, style |-> "Regular"],
        fontWeight |-> 400, textDecoration |-> "NONE", segments |-> <<>>,
        constraints |-> [horizontal |-> "MIN", vertical |-> "MIN"]]

\* one element of getStyledTextSegments
Segment(characters, family, style, color) ==
    [characters |-> characters, fontName |-> [family |-> family, style |-> style],
     fontSize |-> 16, fontWeight |-> 400, fills |-> <<Solid(color)>>,
     textDecoration |-> "NONE"]

\* the node with the properties of changes set
With(node, changes) == changes @@ node

(***************************************************************************)
(* code.ts: the plugin's main thread. In the specifications built on Next  *)
(* the handler of one message runs to its end before another message or    *)
(* selection change is dispatched; SpecOverlap lets handlers overlap. An    *)
(* exception that leaves exportSelection is kept in result as Thrown(..).  *)
(* The json text of the export message and the constant _meta legend of    *)
(* the envelope are not built.                                             *)
(***************************************************************************)
DEFAULT_OPTIONS ==
    [includeChildren |-> TRUE, extractTokens |-> TRUE, optimizeSize |-> TRUE,
     maxDepth |-> 50]

ExportMsg(partial) == [type |-> "export", options |-> partial]
CloseMsg == [type |-> "close"]

\* the object the selectionchange handler and the start-up code post
SelectionMsg(sel) ==
    [type |-> "selection", hasSelection |-> Len(sel) > 0,
     selectionName |-> IF Len(sel) > 0 THEN Str(sel[1].name) ELSE Null,
     selectionType |-> IF Len(sel) > 0 THEN Str(sel[1].type) ELSE Null]

\* the answer without the test of a null result
ReplyUnchecked(res) == [type |-> "export", data |-> res]

\* the message onmessage posts for the value exportSelection returned, or in
\* its catch block for the Error exportSelection threw
Reply(res) ==
    IF IsThrown(res)
    THEN [type |-> "error", error |-> res.thrown]
    ELSE IF res = Null
    THEN [type |-> "error", error |-> "Please select a frame or component to export."]
    ELSE [type |-> "export", data |-> res]

\* the ExportResult exportSelection returns
Envelope(node, opts, o) ==
    [v |-> "1.0", name |-> node.name,
     tokens |-> IF opts.extractTokens THEN optimizeTokens(o.tokens) ELSE EmptyTokens,
     tree |-> o.tree]

(***************************************************************************)
(* Bounds and the documents of the default specification                   *)
(***************************************************************************)
MaxInbox == 2
MaxSelChanges == 1

\* a card: its title repeats the card's stroke color, a hidden layer is dropped
CardDoc ==
    With(Frame("1:1", "Card", "FRAME", 200, 100,
               << With(Shape("1:2", "Badge", "RECTANGLE", 40, 40),
                       [fills |-> <<Solid(Blue)>>]),
                  Hidden(Text("1:3", "Draft", "draft", "Roboto", Grey)),
                  Text("1:4", "Title", "Hello", "Inter", Red) >>),
         [fills |-> <<Solid(Blue)>>, strokes |-> <<Solid(Red)>>])

LabelDoc == Text("2:1", "Label", "Hi", "Roboto", Blue)

Selections == {<<>>, <<CardDoc>>, <<LabelDoc>>}

\* the options objects the UI sends with an export message
Partials ==
    {[extractTokens |-> TRUE], [extractTokens |-> FALSE],
     [includeChildren |-> FALSE], [maxDepth |-> 1, extractTokens |-> TRUE]}

Messages == {ExportMsg(o) : o \in Partials} \cup {CloseMsg}

RECURSIVE SeqsUpTo(_, _)
\* the sequences over S of length 1..n
SeqsUpTo(S, n) ==
    IF n = 0 THEN {}
    ELSE LET shorter == SeqsUpTo(S, n - 1) IN
         {<<m>> : m \in S} \cup shorter \cup {Append(q, m) : q \in shorter, m \in S}

(***************************************************************************)
(* The handler of figma.ui.onmessage, step by step                         *)
(***************************************************************************)
\* transformNode returns node to its caller: the frame below, or transformTree
Returned(stk, node, t) ==
    IF Len(stk) = 0
    THEN /\ out' = [tree |-> node, tokens |-> getTokens(t)]
         /\ stack' = <<>>
         /\ pc' = "envelope"
    ELSE /\ stack' = [stk EXCEPT ![Len(stk)].ch = Append(@, node)]
         /\ pc' = "walk"
         /\ UNCHANGED out

\* transformNode(raw, ctx) has run up to its recursion with the result b
Entered(raw, stk, b) ==
    /\ te' = b.te
    /\ IF b.leaf THEN Returned(stk, b.node, b.te)
       ELSE /\ stack' = Append(stk, [raw |-> raw, node |-> b.node, ch |-> <<>>])
            /\ pc' = "walk"
            /\ UNCHANGED out

\* transformNode(raw, ctx) is called with stk the activation records below it
Call(raw, stk, t) == Entered(raw, stk, Begin(raw, t, options.extractTokens))

\* onmessage({type: 'export'}) up to exportSelection's call of parseNode
ReceiveExport ==
    /\ pc = "idle"
    /\ Len(inbox) > 0
    /\ Head(inbox).type = "export"
    /\ inbox' = Tail(inbox)
    /\ options' = Head(inbox).options @@ DEFAULT_OPTIONS
    /\ rawData' = Unset
    /\ out' = Unset
    /\ IF Len(selection) = 0
       THEN result' = Null /\ pc' = "respond"
       ELSE result' = Unset /\ pc' = "parse"
    /\ UNCHANGED <<selection, selChanges, te, stack, ui, log>>

\* parseNode has settled with r: rawData is assigned unless it threw
Parsed(r) ==
    IF IsThrown(r)
    THEN rawData' = rawData /\ result' = r /\ pc' = "respond"
    ELSE /\ rawData' = r
         /\ IF r = Null
            THEN result' = Null /\ pc' = "respond"
            ELSE result' = result /\ pc' = "transform"

\* const rawData = await parseNode(node, options, 0); if (!rawData) return null
Parse ==
    /\ pc = "parse"
    /\ Parsed(parseNode(selection[1], options, 0))
    /\ UNCHANGED <<selection, inbox, selChanges, options, te, stack, out, ui, log>>

\* transformTree: a new TokenExtractor, then transformNode(raw, ctx)
TransformTree ==
    /\ pc = "transform"
    /\ Call(rawData, <<>>, NewTokenExtractor)
    /\ UNCHANGED <<selection, inbox, selChanges, options, rawData, result, ui, log>>

\* raw.children.map: the next child of the running transformNode
TransformChild ==
    /\ pc = "walk"
    /\ LET top == stack[Len(stack)] IN
       /\ Len(top.ch) < Len(ChildrenOf(top.raw))
       /\ Call(top.raw.children[Len(top.ch) + 1], stack, te)
    /\ UNCHANGED <<selection, inbox, selChanges, options, rawData, result, ui, log>>

\* the running transformNode has its children: the rest of it, and its return
TransformReturn ==
    /\ pc = "walk"
    /\ LET top == stack[Len(stack)] IN
       /\ Len(top.ch) = Len(ChildrenOf(top.raw))
       /\ Returned(SubSeq(stack, 1, Len(stack) - 1),
                   Finish(top.raw, top.node, top.ch), te)
    /\ UNCHANGED <<selection, inbox, selChanges, options, rawData, te, result, ui, log>>

\* exportSelection returns the envelope
ExportResult ==
    /\ pc = "envelope"
    /\ result' = Envelope(selection[1], options, out)
    /\ pc' = "respond"
    /\ UNCHANGED <<selection, inbox, selChanges, options, rawData, te, stack, out, ui, log>>

\* onmessage posts its answer
Respond ==
    /\ pc = "respond"
    /\ ui' = Append(ui, Reply(result))
    /\ log' = Append(log, [selection |-> selection, options |-> options,
                           rawData |-> rawData, out |-> out, result |-> result,
                           reply |-> Reply(result)])
    /\ pc' = "idle"
    /\ UNCHANGED <<selection, inbox, selChanges, options, rawData, te, stack, out, result>>

\* onmessage({type: 'close'}): figma.closePlugin()
ReceiveClose ==
    /\ pc = "idle"
    /\ Len(inbox) > 0
    /\ Head(inbox).type = "close"
    /\ inbox' = Tail(inbox)
    /\ pc' = "closed"
    /\ UNCHANGED <<selection, selChanges, options, rawData, te, stack, out, result, ui, log>>

\* the user changes the selection: figma.on('selectionchange')
SelectionChange ==
    /\ pc = "idle"
    /\ selChanges < MaxSelChanges
    /\ \E sel \in Selections :
        /\ sel # selection
        /\ selection' = sel
        /\ ui' = Append(ui, SelectionMsg(sel))
    /\ selChanges' = selChanges + 1
    /\ UNCHANGED <<inbox, pc, options, rawData, te, stack, out, result, log>>

\* the state after the plugin's start-up code, with sel selected and msgs to come
Start(sel, msgs) ==
    /\ selection = sel
    /\ inbox = msgs
    /\ selChanges = 0
    /\ pc = "idle"
    /\ options = DEFAULT_OPTIONS
    /\ rawData = Unset
    /\ te = Unset
    /\ stack = <<>>
    /\ out = Unset
    /\ result = Unset
    /\ ui = <<SelectionMsg(sel)>>
    /\ log = <<>>

Init == \E sel \in Selections, msgs \in SeqsUpTo(Messages, MaxInbox) : Start(sel, msgs)

Next ==
    \/ ReceiveExport
    \/ Parse
    \/ TransformTree
    \/ TransformChild
    \/ TransformReturn
    \/ ExportResult
    \/ Respond
    \/ ReceiveClose
    \/ SelectionChange

Spec == Init /\ [][Next]_vars

(***************************************************************************)
(* Documents rich in colors, fonts and shadows                             *)
(***************************************************************************)
Black25 == RGBA(0, 0, 0, 25)
Black100 == RGBA(0, 0, 0, 100)

\* the effect lists a layer of these documents can have
EffectLists ==
    { <<>>,
      <<Shadow("DROP_SHADOW", 2, Black25), Shadow("INNER_SHADOW", 1, Black100)>>,
      <<Hidden(Shadow("DROP_SHADOW", 8, Black100)), Shadow("INNER_SHADOW", 1, Black25),
        LayerBlur, Shadow("DROP_SHADOW", 2, Black25)>> }

RootFills ==
    { Solid(Red), SolidAt(Red, 50),
      Linear(<<Stop(0, RGBA(510, 0, 0, 100)), Stop(1000, RGBA(0, 0, 510, 50))>>) }

\* a root with a row holding a text, then a box, then a caption of two style runs
TokenDoc(rootFill, rowColor, rowFamily, boxFill, boxEffects, captionEffects) ==
    With(Frame("3:1", "Root", "FRAME", 300, 200,
               << Frame("3:2", "Row", "FRAME", 300, 40,
                        <<Text("3:3", "Heading", "Title", rowFamily, rowColor)>>),
                  With(Shape("3:4", "Box", "RECTANGLE", 100, 100),
                       [fills |-> <<boxFill>>, strokes |-> <<Solid(Blue)>>,
                        effects |-> boxEffects]),
                  With(Text("3:5", "Caption", "ab", "Inter ", Blue),
                       [effects |-> captionEffects,
                        segments |-> <<Segment("a", "Inter", "Italic", Blue),
                                       Segment("b", "Roboto", "Regular", Red)>>]) >>),
         [fills |-> <<rootFill>>, effects |-> boxEffects])

TokenDocs ==
    { TokenDoc(rootFill, rowColor, rowFamily, boxFill, boxEffects, captionEffects) :
        rootFill \in RootFills, rowColor \in {Red, Blue},
        rowFamily \in {"Inter", "Roboto"}, boxFill \in {Solid(Red), Image("img1")},
        boxEffects \in EffectLists, captionEffects \in
            {<<>>, <<Shadow("DROP_SHADOW", 2, Black25), Shadow("DROP_SHADOW", 4, Black25)>>} }

OneExport == {<<ExportMsg(o), CloseMsg>> : o \in Partials}

InitTokens == \E doc \in TokenDocs, msgs \in OneExport : Start(<<doc>>, msgs)

SpecTokens == InitTokens /\ [][Next]_vars

(***************************************************************************)
(* Reading an exported tree                                                *)
(***************************************************************************)
RECURSIVE Concat(_)
Concat(seqs) == IF Len(seqs) = 0 THEN <<>> ELSE seqs[1] \o Concat(Tail(seqs))

\* the rich-text segments of an output node that have the field key
SegmentValues(node, key) ==
    IF Has(node, "richText")
    THEN Concat([i \in 1..Len(node.richText) |->
                    IF Has(node.richText[i], key) THEN <<node.richText[i][key]>>
                    ELSE <<>>])
    ELSE <<>>

\* the color, font or shadow fields of one output node
OwnPlaces(node, kind) ==
    CASE kind = "colors" ->
            (IF ~Has(node, "bg") THEN <<>>
             ELSE IF Has(node.bg, "solid") THEN <<node.bg.solid>>
             ELSE [i \in 1..Len(node.bg.gradient.stops) |-> node.bg.gradient.stops[i].color])
            \o (IF Has(node, "border") THEN <<node.border.c>> ELSE <<>>)
            \o (IF Has(node, "color") THEN <<node.color>> ELSE <<>>)
            \o SegmentValues(node, "color")
      [] kind = "fonts" ->
            (IF Has(node, "font") THEN <<node.font>> ELSE <<>>)
            \o SegmentValues(node, "font")
      [] kind = "shadows" ->
            IF Has(node, "shadow") THEN <<node.shadow>> ELSE <<>>

RECURSIVE Places(_, _)
\* the fields of a kind in the tree: a node's own, then its children's in ch order
Places(node, kind) ==
    OwnPlaces(node, kind)
    \o (IF Has(node, "ch")
        THEN Concat([i \in 1..Len(node.ch) |-> Places(node.ch[i], kind)])
        ELSE <<>>)

Kinds == {"colors", "fonts", "shadows"}

KindLetter(kind) ==
    CASE kind = "colors" -> "c" [] kind = "fonts" -> "f" [] kind = "shadows" -> "s"

\* the normalized form of a literal value of a kind
Normalized(kind, value) == IF kind = "colors" THEN ToUpperCase(value) ELSE Trim(value)

RECURSIVE FirstSeen(_, _)
\* the distinct elements of values, in the order of their first occurrence
FirstSeen(values, seen) ==
    IF Len(values) = 0 THEN seen
    ELSE FirstSeen(Tail(values),
                   IF \E i \in 1..Len(seen) : seen[i] = values[1] THEN seen
                   ELSE Append(seen, values[1]))

IndexOf(values, x) == CHOOSE i \in 1..Len(values) : values[i] = x

IsReference(value) == Len(value) > 0 /\ CharAt(value, 1) = "$"

\* an empty registry, and the tree a lone run over raw gives with literal values
EmptyRegistry ==
    [colors |-> <<>>, fonts |-> <<>>, shadows |-> <<>>,
     colorCounter |-> 0, fontCounter |-> 0, shadowCounter |-> 0]

LiteralTree(raw) == transformNode(raw, EmptyRegistry, FALSE).node

\* the handler has just answered request Len(log)
JustAnswered == pc = "idle" /\ Len(log) > 0 /\ ui[Len(ui)] = log[Len(log)].reply

\* the export just answered, if it produced a tree with / without tokens
TokenRuns ==
    {i \in 1..Len(log) : /\ i = Len(log) /\ JustAnswered
                         /\ log[i].out # Unset /\ log[i].options.extractTokens}
LiteralRuns ==
    {i \in 1..Len(log) : /\ i = Len(log) /\ JustAnswered
                         /\ log[i].out # Unset /\ ~log[i].options.extractTokens}

(***************************************************************************)
(* Token registry                                                          *)
(***************************************************************************)
\* in the tree of answered export i, two places of a kind carry the same
\* reference exactly when their literal values have the same normalized form
SameValueSameToken(i) ==
    \A kind \in Kinds :
        LET P == Places(log[i].out.tree, kind)
            L == Places(LiteralTree(log[i].rawData), kind)
        IN  /\ Len(P) = Len(L)
            /\ \A a, b \in 1..Len(P) :
                   (Normalized(kind, L[a]) = Normalized(kind, L[b])) <=> (P[a] = P[b])

\* the registry binds every identifier once
IdentifiersDistinct(t) ==
    \A kind \in Kinds : \A a, b \in 1..Len(t[kind]) : t[kind][a].v = t[kind][b].v => a = b

\* every binding of the registry t is a binding of u, at the same place
BindingsKept(t, u) ==
    \A kind \in Kinds :
        /\ Len(t[kind]) <= Len(u[kind])
        /\ \A a \in 1..Len(t[kind]) : u[kind][a] = t[kind][a]

\* C1: within one export with extractTokens = true, the mapping between
\* normalized values and token identifiers is one-to-one for each kind: two
\* places of the output tree carry the same reference if and only if their
\* normalized values are equal, and during the walk an identifier that was
\* issued keeps the value it was issued for.
C1_TokenMappingOneToOne ==
    /\ [](/\ \A i \in TokenRuns : SameValueSameToken(i)
          /\ pc \in {"walk", "envelope"} => IdentifiersDistinct(te))
    /\ [][pc = "walk" => BindingsKept(te, te')]_vars

\* an answered export whose tree repeats a font under two spellings that
\* normalize alike, next to a different font, and repeats a color
C1_Witness ==
    \E i \in TokenRuns :
        LET F == Places(LiteralTree(log[i].rawData), "fonts")
            C == Places(log[i].out.tree, "colors")
        IN  /\ \E a, b \in 1..Len(F) : F[a] # F[b] /\ Trim(F[a]) = Trim(F[b])
            /\ \E a, b \in 1..Len(F) : Trim(F[a]) # Trim(F[b])
            /\ \E a, b \in 1..Len(C) : a # b /\ C[a] = C[b]

\* in answered export i the references follow the first occurrences of the
\* normalized values in pre-order, and the dictionaries list them in that order
NumberedInWalkOrder(i) ==
    \A kind \in Kinds :
        LET P == Places(log[i].out.tree, kind)
            L == Places(LiteralTree(log[i].rawData), kind)
            N == [a \in 1..Len(L) |-> Normalized(kind, L[a])]
            D == FirstSeen(N, <<>>)
            Dict == [k \in 1..Len(D) |->
                        [k |-> KindLetter(kind) \o ToString(k - 1), v |-> D[k]]]
        IN  /\ Len(P) = Len(N)
            /\ \A a \in 1..Len(P) :
                   P[a] = "$" \o KindLetter(kind) \o ToString(IndexOf(D, N[a]) - 1)
            /\ log[i].out.tokens[kind] = Dict
            /\ log[i].result.tokens[kind] = Dict

\* C2: token identifiers are issued sequentially in first-seen order of the
\* pre-order walk (a node's own values, then its children in list order): the
\* k-th distinct normalized value of a kind gets index k-1 and the drained
\* dictionary keys are c0..c(n-1), f0..f(n-1), s0..s(n-1) without gap or repeat.
C2_SequentialInPreOrder ==
    /\ \A i \in TokenRuns : NumberedInWalkOrder(i)
    /\ pc \in {"walk", "envelope"} =>
          \A kind \in Kinds : \A a \in 1..Len(te[kind]) :
              te[kind][a].v = "$" \o KindLetter(kind) \o ToString(a - 1)

\* an answered export with three colors, the second of them first seen in a
\* grandchild that precedes the box, and more color places than colors
C2_Witness ==
    \E i \in TokenRuns :
        /\ Len(log[i].out.tokens.colors) >= 3
        /\ Len(log[i].out.tokens.fonts) >= 2
        /\ Len(Places(log[i].out.tree, "colors")) > Len(log[i].out.tokens.colors)
        /\ Has(log[i].out.tree.ch[1], "ch")
        /\ log[i].out.tree.ch[1].ch[1].color = "$c1"

\* C4: with extractTokens = false every color, font and shadow field of the
\* output tree is a literal, never a $-reference, and the envelope has a
\* tokens section whose colors, fonts and shadows are all empty.
C4_LiteralsWithoutTokens ==
    \A i \in LiteralRuns :
        /\ \A kind \in Kinds :
               LET P == Places(log[i].result.tree, kind) IN
               \A a \in 1..Len(P) : ~IsReference(P[a])
        /\ Has(log[i].result, "tokens")
        /\ \A kind \in Kinds : log[i].result.tokens[kind] = <<>>
        /\ log[i].reply.data = log[i].result

\* an answered export without tokens whose tree has a color, a gradient stop,
\* a border, a font, a rich-text segment and a shadow
C4_Witness ==
    \E i \in LiteralRuns :
        LET tree == log[i].result.tree IN
        /\ Has(tree, "bg") /\ Has(tree.bg, "gradient")
        /\ Has(tree, "shadow")
        /\ Has(tree, "ch")
        /\ \E k \in 1..Len(tree.ch) : Has(tree.ch[k], "border")
        /\ \E k \in 1..Len(tree.ch) : Has(tree.ch[k], "richText")
        /\ Len(Places(tree, "fonts")) >= 3

(***************************************************************************)
(* Runs of the handler                                                     *)
(***************************************************************************)
\* what transformTree gives for raw when nothing was exported before
FreshRun(raw, useTokens) ==
    LET r == transformNode(raw, EmptyRegistry, useTokens) IN
    [tree |-> r.node, tokens |-> getTokens(r.te)]

\* C3: for a fixed raw node tree and a fixed configuration, two runs of
\* transformTree give the same tree, the same token identifiers and the same
\* dictionaries, whatever was exported before: each run gives what a run from
\* an empty registry gives, and two runs over the same input agree.
C3_DeterministicTransform ==
    JustAnswered =>
        \A i \in 1..Len(log) :
            log[i].out # Unset =>
                /\ log[i].out = FreshRun(log[i].rawData, log[i].options.extractTokens)
                /\ \A j \in 1..Len(log) :
                       (/\ log[j].rawData = log[i].rawData
                        /\ log[j].options.extractTokens = log[i].options.extractTokens)
                       => /\ log[j].out = log[i].out
                          /\ log[j].result.tree = log[i].result.tree
                          /\ log[j].result.tokens = log[i].result.tokens

\* two answered exports of the same raw tree with tokens, the second after the
\* first had filled its registry
C3_Witness ==
    \E i, j \in 1..Len(log) :
        /\ i < j
        /\ log[i].out # Unset /\ log[j].out # Unset
        /\ log[i].rawData = log[j].rawData
        /\ log[i].options.extractTokens /\ log[j].options.extractTokens
        /\ Len(log[j].out.tokens.colors) >= 2
        /\ Len(log[j].out.tokens.fonts) >= 1

IsReply(m) == m.type \in {"export", "error"}

\* C10: an export requested while the selection is empty returns nothing:
\* exportSelection yields null, nothing is parsed or transformed, no envelope is
\* built, and the UI gets one error message and no export message for it.
C10_EmptySelectionIsAnError ==
    /\ \A i \in 1..Len(log) :
           log[i].selection = <<>> =>
               /\ log[i].rawData = Unset
               /\ log[i].out = Unset
               /\ log[i].result = Null
               /\ log[i].reply.type = "error"
               /\ ~Has(log[i].reply, "data")
    /\ SelectSeq(ui, IsReply) = [i \in 1..Len(log) |-> log[i].reply]
    /\ (pc = "respond" /\ selection = <<>>) => (stack = <<>> /\ rawData = Unset)

\* an export was requested with nothing selected and has been answered, after
\* an export that did produce an envelope
C10_Witness ==
    /\ Len(log) = 2
    /\ log[1].selection # <<>> /\ log[1].reply.type = "export"
    /\ log[2].selection = <<>>

(***************************************************************************)
(* Documents that vary layout, padding, opacity and clipping               *)
(***************************************************************************)
\* the four paddings of a frame as <<top, right, bottom, left>>
PaddingChoices == { <<0, 0, 0, 0>>, <<16, 16, 16, 16>>, <<8, 16, 8, 16>>, <<0, 0, 0, 8>> }

InnerPaddingChoices == { <<0, 0, 0, 0>>, <<4, 4, 4, 4>> }

\* a panel with an auto-layout frame holding a note, a hidden layer and a dot
LayoutDoc(mode, pad, fill, opacity, clips, innerPad, innerOpacity) ==
    With(Frame("4:1", "Panel", "FRAME", 320, 240,
               << With(Frame("4:2", "Inner", "FRAME", 100, 50,
                             <<With(Text("4:3", "Note", "n", "Inter", Red),
                                    [opacity |-> innerOpacity])>>),
                       AutoLayout("VERTICAL", innerPad[1], innerPad[2],
                                  innerPad[3], innerPad[4], 4)
                       @@ [opacity |-> innerOpacity, clipsContent |-> ~clips]),
                  Hidden(Shape("4:4", "Ghost", "RECTANGLE", 10, 10)),
                  With(Shape("4:5", "Dot", "ELLIPSE", 10, 10), [opacity |-> opacity]) >>),
         AutoLayout(mode, pad[1], pad[2], pad[3], pad[4], 0)
         @@ [fills |-> <<fill>>, opacity |-> opacity, clipsContent |-> clips])

\* a frame without auto layout has no padding
LayoutDocs ==
    { LayoutDoc(mode, pad, fill, opacity, clips, innerPad, innerOpacity) :
        mode \in {"NONE", "HORIZONTAL", "VERTICAL"},
        pad \in PaddingChoices, fill \in {Solid(Grey), Image("img2")},
        opacity \in {1000, 500}, clips \in BOOLEAN,
        innerPad \in InnerPaddingChoices, innerOpacity \in {1000, 250} }
    \ { LayoutDoc("NONE", pad, fill, opacity, clips, innerPad, innerOpacity) :
        pad \in PaddingChoices \ {<<0, 0, 0, 0>>}, fill \in {Solid(Grey), Image("img2")},
        opacity \in {1000, 500}, clips \in BOOLEAN,
        innerPad \in InnerPaddingChoices, innerOpacity \in {1000, 250} }

LayoutExports ==
    { <<ExportMsg([extractTokens |-> FALSE]), CloseMsg>>,
      <<ExportMsg([includeChildren |-> FALSE]), CloseMsg>> }

InitLayout == \E doc \in LayoutDocs, msgs \in LayoutExports : Start(<<doc>>, msgs)

SpecLayout == InitLayout /\ [][Next]_vars

(***************************************************************************)
(* Reading an exported tree next to the record and the scene it came from  *)
(***************************************************************************)
RECURSIVE SceneNodes(_)
\* a scene node and its descendants
SceneNodes(node) ==
    <<node>>
    \o (IF Has(node, "children")
        THEN Concat([i \in 1..Len(node.children) |-> SceneNodes(node.children[i])])
        ELSE <<>>)

SceneNodeOf(doc, id) ==
    LET all == SceneNodes(doc) IN all[CHOOSE i \in 1..Len(all) : all[i].id = id]

RECURSIVE NodePairs(_, _)
\* each output node of a tree with the parsed record it was made from
NodePairs(raw, node) ==
    <<[raw |-> raw, node |-> node]>>
    \o (IF Has(node, "ch")
        THEN Concat([i \in 1..Len(node.ch) |-> NodePairs(raw.children[i], node.ch[i])])
        ELSE <<>>)

\* the export just answered, if it produced a tree
AnsweredTrees ==
    {i \in 1..Len(log) : i = Len(log) /\ JustAnswered /\ log[i].out # Unset}

PairsOf(i) == NodePairs(log[i].rawData, log[i].out.tree)

\* opacity exactly 1, visible, and content not clipped
HasDefaults(scene) ==
    /\ scene.opacity = 1000
    /\ scene.visible
    /\ ~(Has(scene, "clipsContent") /\ scene.clipsContent)

\* C5: a node whose opacity is exactly 1, whose visibility is true and whose
\* overflow is visible (content clipping off) carries none of the fields
\* opacity, visible and overflow in the output.
C5_DefaultsOmitted ==
    \A i \in AnsweredTrees :
        \A k \in 1..Len(PairsOf(i)) :
            HasDefaults(SceneNodeOf(log[i].selection[1], PairsOf(i)[k].raw.id))
            => /\ ~Has(PairsOf(i)[k].node, "opacity")
               /\ ~Has(PairsOf(i)[k].node, "visible")
               /\ ~Has(PairsOf(i)[k].node, "overflow")

\* an answered export whose root frame has the three defaults and no such
\* field, while a child of it is translucent and clips and says so
C5_Witness ==
    \E i \in AnsweredTrees :
        /\ HasDefaults(log[i].selection[1])
        /\ log[i].out.tree.type = "frame"
        /\ ~Has(log[i].out.tree, "opacity") /\ ~Has(log[i].out.tree, "overflow")
        /\ Has(log[i].out.tree, "ch")
        /\ Has(log[i].out.tree.ch[1], "opacity")
        /\ Has(log[i].out.tree.ch[1], "overflow")

\* the record has the four padding values (the parser reads them together)
HasPaddings(raw) ==
    /\ Has(raw, "paddingTop") /\ Has(raw, "paddingRight")
    /\ Has(raw, "paddingBottom") /\ Has(raw, "paddingLeft")

\* p as the rule of shorthand padding has it for the four values of raw
PaddingShorthand(raw, node) ==
    IF /\ raw.paddingTop = raw.paddingRight
       /\ raw.paddingRight = raw.paddingBottom
       /\ raw.paddingBottom = raw.paddingLeft
    THEN IF raw.paddingTop # 0
         THEN Has(node, "p") /\ node.p = Num(raw.paddingTop)
         ELSE ~Has(node, "p")
    ELSE /\ Has(node, "p")
         /\ node.p = Tup(<<raw.paddingTop, raw.paddingRight,
                           raw.paddingBottom, raw.paddingLeft>>)

\* C6 as stated: every node with four padding values outputs p as a single
\* number when they are equal and non-zero, as the 4-tuple [top, right, bottom,
\* left] when they are not all equal, and no p when they are all zero.
C6_PaddingOfEveryNode ==
    \A i \in AnsweredTrees :
        \A k \in 1..Len(PairsOf(i)) :
            HasPaddings(PairsOf(i)[k].raw)
            => PaddingShorthand(PairsOf(i)[k].raw, PairsOf(i)[k].node)

\* C6, amended: a node with four padding values that has no image fill
\* outputs p as a single number when the four are equal and non-zero, as the
\* 4-tuple [top, right, bottom, left] when they are not all equal, and no p
\* when they are all zero; a node with an image fill is output as an image
\* and has no p whatever its padding.
C6_PaddingShorthand ==
    \A i \in AnsweredTrees :
        \A k \in 1..Len(PairsOf(i)) :
            HasPaddings(PairsOf(i)[k].raw)
            => IF hasImageFill(PairsOf(i)[k].raw)
               THEN PairsOf(i)[k].node.type = "img" /\ ~Has(PairsOf(i)[k].node, "p")
               ELSE PaddingShorthand(PairsOf(i)[k].raw, PairsOf(i)[k].node)

\* an answered export whose root has the tuple [0, 0, 0, 8] and whose first
\* child has the single number 4
C6_Witness ==
    \E i \in AnsweredTrees :
        /\ Has(log[i].out.tree, "p")
        /\ log[i].out.tree.p = Tup(<<0, 0, 0, 8>>)
        /\ Has(log[i].out.tree, "ch")
        /\ Has(log[i].out.tree.ch[1], "p")
        /\ log[i].out.tree.ch[1].p = Num(4)

(***************************************************************************)
(* Documents that vary the name, the layout and the children of a          *)
(* container                                                               *)
(***************************************************************************)
ItemNames ==
    { <<"Item", "Item", "Item", "Item">>,
      <<"Email input", "Password field", "Submit btn", "Item">> }

\* plain: equal solid items; itemImage: the items have an image fill;
\* textImage: their texts have one; uneven: the items differ in height
ItemLooks == {"plain", "itemImage", "textImage", "uneven"}

\* item k of a container: a rounded 280 x 48 frame holding one text
Item(k, look, names) ==
    With(Frame("5:" \o ToString(k), names[k], "FRAME", 280,
               IF look = "uneven" THEN 48 + 40 * k ELSE 48,
               <<With(Text("6:" \o ToString(k), "Label", "Item " \o ToString(k),
                           "Inter", Grey),
                      IF look = "textImage" THEN [fills |-> <<Image("img4")>>]
                      ELSE <<>>)>>),
         [fills |-> <<IF look = "itemImage" THEN Image("img3") ELSE Solid(Blue)>>,
          cornerRadius |-> 8])

\* the layout modes of a container with the wrap each can have
ContainerLayouts ==
    { <<"NONE", "NO_WRAP">>, <<"VERTICAL", "NO_WRAP">>,
      <<"HORIZONTAL", "NO_WRAP">>, <<"HORIZONTAL", "WRAP">> }

PatternDoc(name, type, layout, fill, n, look, names) ==
    With(Frame("5:0", name, type, 320, 400, [k \in 1..n |-> Item(k, look, names)]),
         [layoutMode |-> layout[1], layoutWrap |-> layout[2], fills |-> <<fill>>])

PatternDocs ==
    { PatternDoc(name, type, layout, fill, n, look, names) :
        name \in {"ProductGrid", "Menu"}, type \in {"FRAME", "COMPONENT"},
        layout \in ContainerLayouts, fill \in {Solid(Grey), Image("img2")},
        n \in {0, 3, 4}, look \in ItemLooks, names \in ItemNames }

InitPattern == \E doc \in PatternDocs, msgs \in LayoutExports : Start(<<doc>>, msgs)

SpecPattern == InitPattern /\ [][Next]_vars

(***************************************************************************)
(* Pattern detection                                                       *)
(***************************************************************************)
\* the name matches the grid entry of the name hints, the first of the table
GridNamed(raw) == RegexTestI(PATTERN_NAME_HINTS[1].regex, raw.name)

Wraps(raw) == Has(raw, "layoutWrap") /\ raw.layoutWrap = "WRAP"

\* the node is exported by the generic branch, which attaches the pattern
IsGeneric(node) == node.type \notin {"img", "text"}

\* detectPattern's answer for raw is info, and what a generic output node shows
PatternIs(raw, node, info) ==
    /\ detectPattern(raw) = <<info>>
    /\ IsGeneric(node) => Has(node, "patternInfo") /\ node.patternInfo = info

\* C7 as stated: for every node whose name matches the grid keyword and whose
\* layout does not wrap, detectPattern returns grid with itemCount set to the
\* number of children and with neither columns nor rows.
C7_GridHintAlwaysCounts ==
    \A i \in AnsweredTrees :
        \A k \in 1..Len(PairsOf(i)) :
            (GridNamed(PairsOf(i)[k].raw) /\ ~Wraps(PairsOf(i)[k].raw))
            => PatternIs(PairsOf(i)[k].raw, PairsOf(i)[k].node,
                         [pattern |-> "grid",
                          itemCount |-> Len(ChildrenOf(PairsOf(i)[k].raw))])

\* C7, amended: a name hint overrides every structural test: for a node whose
\* name matches the grid keyword but whose layout does not wrap, detectPattern
\* returns pattern = grid with neither columns nor rows, whatever the
\* structural detectors would have returned; itemCount is set to the number of
\* children when the node has a children list and is absent when it has none.
C7_GridHintOverrides ==
    \A i \in AnsweredTrees :
        \A k \in 1..Len(PairsOf(i)) :
            (GridNamed(PairsOf(i)[k].raw) /\ ~Wraps(PairsOf(i)[k].raw))
            => PatternIs(PairsOf(i)[k].raw, PairsOf(i)[k].node,
                         IF Has(PairsOf(i)[k].raw, "children")
                         THEN [pattern |-> "grid",
                               itemCount |-> Len(PairsOf(i)[k].raw.children)]
                         ELSE [pattern |-> "grid"])

\* an answered export of a vertical "ProductGrid" of three like items, which
\* the list detector would call a list, output as grid with itemCount 3
C7_Witness ==
    \E i \in AnsweredTrees :
        /\ GridNamed(log[i].rawData) /\ ~Wraps(log[i].rawData)
        /\ detectListPattern(log[i].rawData) = <<[pattern |-> "list", itemCount |-> 3]>>
        /\ IsGeneric(log[i].out.tree)
        /\ log[i].out.tree.patternInfo = [pattern |-> "grid", itemCount |-> 3]

\* the children of raw are two or more frames of one size, each holding one text
LikeFramesWithText(raw) ==
    /\ Len(ChildrenOf(raw)) >= 2
    /\ \A k \in 1..Len(raw.children) :
           /\ raw.children[k].type = "FRAME"
           /\ raw.children[k].width = raw.children[1].width
           /\ raw.children[k].height = raw.children[1].height
           /\ Len(ChildrenOf(raw.children[k])) = 1
           /\ raw.children[k].children[1].type = "TEXT"

\* a vertical auto-layout node without a pattern keyword in its name, with
\* such children, that no detector asked before the list detector matches
ListScenario(raw) ==
    /\ Has(raw, "layoutMode") /\ raw.layoutMode = "VERTICAL"
    /\ detectPatternFromName(raw.name) = <<>>
    /\ LikeFramesWithText(raw)
    /\ detectGridPattern(raw) = <<>>
    /\ detectCarouselPattern(raw) = <<>>
    /\ detectTabsPattern(raw) = <<>>
    /\ detectStepperPattern(raw) = <<>>
    /\ detectFormPattern(raw) = <<>>

\* a frame with layout col, as many frame children as raw has, each with a
\* nested text child, and the list pattern with that count
ListOutput(raw, node) ==
    /\ node.type = "frame"
    /\ Has(node, "layout") /\ node.layout = "col"
    /\ Has(node, "ch") /\ Len(node.ch) = Len(raw.children)
    /\ \A k \in 1..Len(node.ch) :
           /\ node.ch[k].type = "frame"
           /\ Has(node.ch[k], "ch") /\ Len(node.ch[k].ch) = 1
           /\ node.ch[k].ch[1].type = "text"
    /\ Has(node, "patternInfo")
    /\ node.patternInfo = [pattern |-> "list", itemCount |-> Len(raw.children)]

\* neither raw nor its children nor their texts have an image fill
NoImageFills(raw) ==
    /\ ~hasImageFill(raw)
    /\ \A k \in 1..Len(raw.children) :
           /\ ~hasImageFill(raw.children[k])
           /\ ~hasImageFill(raw.children[k].children[1])

\* C8 as stated: every vertical auto-layout node with no pattern keyword in
\* its name and n >= 2 like children, each a frame holding one text, that no
\* grid, carousel, tabs, stepper or form detector matches, is output as a
\* frame with layout col, n frame children each with a nested text child, and
\* patternInfo {pattern: list, itemCount: n}.
C8_ListOfEveryContainer ==
    \A i \in AnsweredTrees :
        \A k \in 1..Len(PairsOf(i)) :
            ListScenario(PairsOf(i)[k].raw)
            => ListOutput(PairsOf(i)[k].raw, PairsOf(i)[k].node)

\* C8, amended: a vertical auto-layout frame or component (type FRAME or
\* COMPONENT) with no pattern keyword in its name and n >= 2 children that all
\* have the same type, size and child count (each a frame holding one text
\* child), where neither the node nor its children nor their texts have an
\* image fill and no grid, carousel, tabs, stepper or form detector matches,
\* is output as a frame with layout col, a ch list of n frame nodes each with
\* a nested text child, and patternInfo {pattern: list, itemCount: n}.
C8_VerticalListScenario ==
    \A i \in AnsweredTrees :
        \A k \in 1..Len(PairsOf(i)) :
            (/\ ListScenario(PairsOf(i)[k].raw)
             /\ PairsOf(i)[k].raw.type \in {"FRAME", "COMPONENT"}
             /\ NoImageFills(PairsOf(i)[k].raw))
            => ListOutput(PairsOf(i)[k].raw, PairsOf(i)[k].node)

\* an answered export of a vertical component "Menu" of three like items
\* without image fills, output as a list of three
C8_Witness ==
    \E i \in AnsweredTrees :
        /\ ListScenario(log[i].rawData)
        /\ log[i].rawData.type = "COMPONENT"
        /\ NoImageFills(log[i].rawData)
        /\ Len(log[i].out.tree.ch) = 3
        /\ log[i].out.tree.patternInfo = [pattern |-> "list", itemCount |-> 3]

(***************************************************************************)
(* Shadows                                                                 *)
(***************************************************************************)
\* the visible drop and inner shadows of a scene node, in effect-list order
VisibleShadows(scene) ==
    IF Has(scene, "effects")
    THEN SelectSeq(scene.effects,
                   LAMBDA e : e.type \in {"DROP_SHADOW", "INNER_SHADOW"} /\ e.visible)
    ELSE <<>>

\* node carries one shadow reference, bound in the dictionary of export i, once,
\* to the descriptors of the effects joined by ", ", inset marking the inner ones
OneShadowToken(i, effects, node) ==
    LET D == [k \in 1..Len(effects) |-> ShadowDescriptor(effects[k])]
        dict == log[i].result.tokens.shadows
    IN  /\ Has(node, "shadow") /\ IsReference(node.shadow)
        /\ MapHas(dict, SubSeq(node.shadow, 2, Len(node.shadow)))
        /\ MapGet(dict, SubSeq(node.shadow, 2, Len(node.shadow))) = Join(D, ", ")
        /\ Cardinality({k \in 1..Len(dict) : dict[k].v = Join(D, ", ")}) = 1
        /\ \A k \in 1..Len(D) :
               StartsWithAt(D[k], 1, "inset ") <=> effects[k].type = "INNER_SHADOW"

SceneOfPair(i, k) == SceneNodeOf(log[i].selection[1], PairsOf(i)[k].raw.id)

\* C9 as stated, for exports with tokens: every node with several visible
\* drop/inner shadow effects yields exactly one shadow token whose dictionary
\* value is the descriptors of those effects, in order, joined by ", ".
C9_ShadowTokenOfEveryNode ==
    \A i \in TokenRuns :
        \A k \in 1..Len(PairsOf(i)) :
            Len(VisibleShadows(SceneOfPair(i, k))) >= 2
            => OneShadowToken(i, VisibleShadows(SceneOfPair(i, k)), PairsOf(i)[k].node)

\* C9, amended: in an export with token extraction on, a node that is neither
\* a text node nor has an image fill and has several visible drop/inner shadow
\* effects yields exactly one shadow token whose dictionary value is the
\* per-effect descriptors, in effect-list order, joined by ", ", where a
\* descriptor starts with "inset " if and only if its effect is an inner
\* shadow; invisible effects and non-shadow effects contribute nothing. A text
\* node or a node with an image fill yields no shadow field.
C9_ShadowsJoinedInOneToken ==
    \A i \in TokenRuns :
        \A k \in 1..Len(PairsOf(i)) :
            Len(VisibleShadows(SceneOfPair(i, k))) >= 2
            => IF IsGeneric(PairsOf(i)[k].node)
               THEN OneShadowToken(i, VisibleShadows(SceneOfPair(i, k)),
                                   PairsOf(i)[k].node)
               ELSE ~Has(PairsOf(i)[k].node, "shadow")

\* an answered export whose root has a hidden drop shadow, an inner shadow, a
\* layer blur and a drop shadow, and carries $s0 for the inner and the drop one
C9_Witness ==
    \E i \in TokenRuns :
        /\ Len(log[i].selection[1].effects) = 4
        /\ Len(VisibleShadows(log[i].selection[1])) = 2
        /\ log[i].out.tree.shadow = "$s0"
        /\ log[i].result.tokens.shadows =
               <<[k |-> "s0",
                  v |-> "inset 0px 1px 4px 0px rgba(0,0,0,0.25), 0px 2px 4px 0px rgba(0,0,0,0.25)"]>>


(***************************************************************************)
(* Documents with hidden layers, nesting of three levels, a layer of a     *)
(* type the type table does not have, an instance with prototype links,    *)
(* and layers the Figma API fails on                                       *)
(***************************************************************************)
Green == RGB(0, 510, 0)

\* what getMainComponentAsync can answer for the instance
MainComponents ==
    { [name |-> "Button/Primary", description |-> "Main call to action"],
      Null,
      [error |-> "Cannot access main component"] }

\* what figma.getNodeById can answer for the destination of the link
Destinations ==
    { [name |-> "Checkout"], Null, [error |-> "Cannot access node by id"] }

\* the layers that cannot be read: none, a child of the root, a layer at depth 3
Unreadable == {"", "4:9", "4:5"}

Broken(node, unreadable) ==
    IF node.id = unreadable THEN With(node, [error |-> "Node was removed"]) ELSE node

Link(destination) ==
    [trigger |-> [type |-> "ON_CLICK"],
     action |-> [type |-> "NODE", destinationId |-> "9:1", destination |-> destination,
                 transition |-> [type |-> "DISSOLVE"]]]

Visibility(node, visible) == IF visible THEN node ELSE Hidden(node)

\* a page with a section (a text, then a panel holding a dot), a note, an
\* instance holding a label, and a footer
TreeDoc(sectionVisible, noteType, mainComponent, destination, unreadable) ==
    Frame("4:1", "Page", "FRAME", 400, 400,
          << Visibility(
                 With(Frame("4:2", "Section", "FRAME", 400, 100,
                            << Text("4:3", "Deep", "deep", "Lato", Green),
                               Frame("4:4", "Panel", "FRAME", 100, 50,
                                     <<Broken(With(Shape("4:5", "Dot", "ELLIPSE", 8, 8),
                                                   [fills |-> <<Solid(Red)>>]),
                                              unreadable)>>) >>),
                      [fills |-> <<Solid(Green)>>]),
                 sectionVisible),
             With(Shape("4:6", "Note", noteType, 60, 60), [fills |-> <<Solid(Blue)>>]),
             With(Frame("4:7", "Buy", "INSTANCE", 120, 40,
                        <<Text("4:8", "Label", "Buy", "Inter", Red)>>),
                  [mainComponent |-> mainComponent,
                   variantProperties |-> [size |-> "lg"],
                   reactions |-> <<Link(destination)>>]),
             Broken(Shape("4:9", "Footer", "RECTANGLE", 400, 20), unreadable) >>)

\* a page with a panel of dots, dot k being shown when shown[k]
StackDoc(shown) ==
    Frame("4:1", "Page", "FRAME", 400, 400,
          <<Frame("4:4", "Panel", "FRAME", 100, 50,
                  [k \in 1..Len(shown) |->
                      Visibility(Shape("4:1" \o ToString(k), "Dot", "ELLIPSE", 8, 8),
                                 shown[k])])>>)

StackDocs ==
    { StackDoc(shown) :
        shown \in {<<TRUE>>, <<TRUE, FALSE>>, <<FALSE, TRUE>>, <<TRUE, TRUE>>} }

TreeDocs ==
    { TreeDoc(sectionVisible, noteType, mainComponent, destination, unreadable) :
        sectionVisible \in BOOLEAN, noteType \in {"RECTANGLE", "STICKY"},
        mainComponent \in MainComponents, destination \in Destinations,
        unreadable \in Unreadable }
    \cup StackDocs

TreeExports ==
    { <<ExportMsg(o), CloseMsg>> :
        o \in {[maxDepth |-> 0], [maxDepth |-> 1], [maxDepth |-> 2],
               [includeChildren |-> FALSE], [extractTokens |-> FALSE]} }

InitTree == \E doc \in TreeDocs, msgs \in TreeExports : Start(<<doc>>, msgs)

SpecTree == InitTree /\ [][Next]_vars


(***************************************************************************)
(* Hidden layers                                                           *)
(***************************************************************************)
IsShown(scene) == scene.visible

Ids(nodes) == [k \in 1..Len(nodes) |-> nodes[k].id]

RECURSIVE Pruned(_)
\* the scene without its hidden layers and what they hold
Pruned(scene) ==
    IF Has(scene, "children")
    THEN LET shown == SelectSeq(scene.children, IsShown) IN
         [scene EXCEPT !.children = [k \in 1..Len(shown) |-> Pruned(shown[k])]]
    ELSE scene

\* the token dictionaries of the export of scene under opts
TokensOf(scene, opts) ==
    Envelope(scene, opts,
             transformTree(parseNode(scene, opts, 0), opts.extractTokens)).tokens

\* C11: a layer that is hidden is left out of the export whole: every node of
\* an exported tree comes from a visible layer, a node's ch list holds exactly
\* its layer's visible children in their order (nothing stands in for a hidden
\* one, and so nothing of a hidden layer's subtree is reached), and the token
\* dictionaries are those of the document with the hidden layers removed, so
\* no token exists for a value found only in a hidden layer.
C11_HiddenLayersLeftOut ==
    \A i \in AnsweredTrees :
        LET doc == log[i].selection[1]
            pairs == PairsOf(i)
        IN  /\ \A k \in 1..Len(pairs) :
                LET scene == SceneNodeOf(doc, pairs[k].raw.id) IN
                /\ scene.visible
                /\ Has(pairs[k].node, "ch") =>
                      Ids(pairs[k].raw.children)
                          = Ids(SelectSeq(scene.children, IsShown))
            /\ log[i].result.tokens = TokensOf(Pruned(doc), log[i].options)

\* an export with tokens of a page whose hidden first section holds layers of
\* its own and is followed by visible layers
C11_Witness ==
    \E i \in AnsweredTrees :
        LET doc == log[i].selection[1] IN
        /\ log[i].options.extractTokens
        /\ Has(doc, "children") /\ Len(doc.children) > 2
        /\ ~doc.children[1].visible
        /\ Has(doc.children[1], "children") /\ Len(doc.children[1].children) > 0
        /\ Has(log[i].out.tree, "ch")
        /\ Len(log[i].out.tree.ch) = Len(doc.children) - 1


(***************************************************************************)
(* Layers of a type the type table does not list                           *)
(***************************************************************************)
\* the keys of mapNodeType's table
KnownTypes ==
    {"FRAME", "GROUP", "RECTANGLE", "ELLIPSE", "TEXT", "VECTOR", "INSTANCE",
     "COMPONENT", "COMPONENT_SET", "LINE", "POLYGON", "STAR", "BOOLEAN_OPERATION"}

\* C12 as stated: no output node is made from a record whose type is outside
\* the type table.
C12_UnknownTypeLeftOut ==
    \A i \in AnsweredTrees :
        \A k \in 1..Len(PairsOf(i)) : PairsOf(i)[k].raw.type \in KnownTypes

\* C12: a visible layer of a type outside the type table is not left out: it
\* stands in its parent's ch list like any other visible layer, and its output
\* node has the type frame (img when the record has an image fill).
C12_UnknownTypeIsFrame ==
    \A i \in AnsweredTrees :
        LET pairs == PairsOf(i) IN
        \A k \in 1..Len(pairs) :
            /\ pairs[k].raw.type \notin KnownTypes =>
                  pairs[k].node.type
                      = IF hasImageFill(pairs[k].raw) THEN "img" ELSE "frame"
            /\ Has(pairs[k].node, "ch") =>
                  \A c \in 1..Len(pairs[k].raw.children) :
                      pairs[k].node.ch[c].type
                          \in {"img", mapNodeType(pairs[k].raw.children[c].type)}
                  /\ Ids(pairs[k].raw.children)
                         = Ids(SelectSeq(SceneNodeOf(log[i].selection[1],
                                                     pairs[k].raw.id).children, IsShown))

\* an exported page one of whose visible layers is a sticky note
C12_Witness ==
    \E i \in AnsweredTrees :
        /\ Has(log[i].selection[1], "children")
        /\ \E c \in 1..Len(log[i].selection[1].children) :
              /\ log[i].selection[1].children[c].type = "STICKY"
              /\ log[i].selection[1].children[c].visible
        /\ \E k \in 1..Len(PairsOf(i)) :
              /\ PairsOf(i)[k].raw.type = "STICKY"
              /\ PairsOf(i)[k].node.type = "frame"


(***************************************************************************)
(* The depth limit                                                         *)
(***************************************************************************)
RECURSIVE DepthPairs(_, _, _)
\* each output node of a tree with its record and its depth, the root's being depth
DepthPairs(raw, node, depth) ==
    <<[raw |-> raw, node |-> node, depth |-> depth]>>
    \o (IF Has(node, "ch")
        THEN Concat([c \in 1..Len(node.ch) |->
                        DepthPairs(raw.children[c], node.ch[c], depth + 1)])
        ELSE <<>>)

\* the ids of the nodes in node's ch list
ChildIds(pair) == IF Has(pair.node, "ch") THEN Ids(pair.raw.children) ELSE <<>>

\* C13: with maxDepth = d > 0 and the root at depth 0, an exported tree has no
\* node deeper than d, and a node that is exported with children (children
\* are included and it is neither an image nor a text node) at a depth below d
\* has all the visible children of its layer; a node at depth d has none, and
\* the request is still answered by an export message. With maxDepth = 0 every
\* node exported with children has all its visible children at every depth.
C13_DepthLimit ==
    \A i \in AnsweredTrees :
        LET d == log[i].options.maxDepth
            pairs == DepthPairs(log[i].rawData, log[i].out.tree, 0)
        IN  /\ log[i].reply.type = "export"
            /\ log[i].reply.data.tree = log[i].out.tree
            /\ \A k \in 1..Len(pairs) :
                LET scene == SceneNodeOf(log[i].selection[1], pairs[k].raw.id) IN
                /\ d > 0 => pairs[k].depth <= d
                /\ ChildIds(pairs[k])
                     = IF /\ log[i].options.includeChildren
                          /\ IsGeneric(pairs[k].node)
                          /\ Has(scene, "children")
                          /\ (d = 0 \/ pairs[k].depth < d)
                       THEN Ids(SelectSeq(scene.children, IsShown))
                       ELSE <<>>

\* an export with maxDepth = 2 of a page that has a visible layer at depth 3:
\* its parent at depth 2 is exported without children
C13_Witness ==
    \E i \in AnsweredTrees :
        LET pairs == DepthPairs(log[i].rawData, log[i].out.tree, 0) IN
        /\ log[i].options.maxDepth = 2
        /\ \E k \in 1..Len(pairs) :
              LET scene == SceneNodeOf(log[i].selection[1], pairs[k].raw.id) IN
              /\ pairs[k].depth = 2
              /\ Has(scene, "children")
              /\ \E c \in 1..Len(scene.children) : scene.children[c].visible
              /\ ~Has(pairs[k].node, "ch")


(***************************************************************************)
(* Lookups of the main component and of a link's destination that fail     *)
(***************************************************************************)
Without(r, keys) == [k \in DOMAIN r \ keys |-> r[k]]

HealedReaction(reaction) ==
    IF Has(reaction, "action") /\ Has(reaction.action, "destination")
       /\ Throws(reaction.action.destination)
    THEN [reaction EXCEPT !.action.destination = [name |-> "Checkout"]]
    ELSE reaction

RECURSIVE Healed(_)
\* the scene with an answer in place of every lookup that fails
Healed(scene) ==
    [k \in DOMAIN scene |->
        IF k = "mainComponent" /\ Throws(scene[k])
        THEN [name |-> "Button/Primary", description |-> "Main call to action"]
        ELSE IF k = "reactions"
        THEN [j \in 1..Len(scene[k]) |-> HealedReaction(scene[k][j])]
        ELSE IF k = "children"
        THEN [j \in 1..Len(scene[k]) |-> Healed(scene[k][j])]
        ELSE scene[k]]

MainComponentFails(scene) == Has(scene, "mainComponent") /\ Throws(scene.mainComponent)

DestinationFails(scene, j) ==
    /\ Has(scene, "reactions") /\ j <= Len(scene.reactions)
    /\ Throws(scene.reactions[j].action.destination)

\* what parseNode and transformTree make of scene under opts
RunOf(scene, opts) ==
    LET r == parseNode(scene, opts, 0) IN
    IF IsThrown(r) \/ r = Null THEN r
    ELSE [raw |-> r, out |-> transformTree(r, opts.extractTokens)]

\* the output node healed of a layer, less what the failing lookups of the
\* layer would have given, and less its children
LessLookups(scene, healed) ==
    LET own == Without(healed,
                   {"ch"} \cup (IF MainComponentFails(scene)
                                THEN {"componentName", "variantProps", "componentDesc"}
                                ELSE {}))
    IN  IF Has(own, "interactions")
        THEN [own EXCEPT !.interactions =
                 [j \in 1..Len(@) |->
                     IF DestinationFails(scene, j) THEN Without(@[j], {"dest"})
                     ELSE @[j]]]
        ELSE own

\* C14: a rejected lookup of an instance's main component, or a throwing
\* lookup of a link's destination, changes nothing but the fields it feeds:
\* the request gets the answer it would get if the lookups succeeded, and
\* when that is an export the tree has the same nodes with the same children
\* and fields, except that the instance lacks componentName, variantProps and
\* componentDesc and the interaction lacks dest; the tokens are the same.
C14_LookupFailureContained ==
    \A i \in 1..Len(log) :
        (i = Len(log) /\ JustAnswered /\ Len(log[i].selection) > 0) =>
        LET doc == log[i].selection[1]
            healed == RunOf(Healed(doc), log[i].options)
        IN  IF IsThrown(healed) \/ healed = Null
            THEN log[i].reply = Reply(healed)
            ELSE /\ log[i].reply.type = "export"
                 /\ log[i].result.tokens
                      = Envelope(doc, log[i].options, healed.out).tokens
                 /\ LET mine == PairsOf(i)
                        theirs == NodePairs(healed.raw, healed.out.tree)
                    IN  /\ Len(mine) = Len(theirs)
                        /\ \A k \in 1..Len(mine) :
                            /\ mine[k].raw.id = theirs[k].raw.id
                            /\ ChildIds(mine[k]) = ChildIds(theirs[k])
                            /\ Without(mine[k].node, {"ch"})
                                 = LessLookups(SceneNodeOf(doc, mine[k].raw.id),
                                               theirs[k].node)
                            /\ MainComponentFails(SceneNodeOf(doc, mine[k].raw.id))
                                 => ~Has(mine[k].node, "componentName")

\* an export of a page whose instance has a main component that cannot be
\* fetched and a link whose destination cannot be looked up: the instance is
\* in the tree with its label and its interaction, without name and dest
C14_Witness ==
    \E i \in AnsweredTrees :
        \E k \in 1..Len(PairsOf(i)) :
            LET scene == SceneNodeOf(log[i].selection[1], PairsOf(i)[k].raw.id)
                node == PairsOf(i)[k].node
            IN  /\ MainComponentFails(scene)
                /\ DestinationFails(scene, 1)
                /\ node.type = "instance"
                /\ Has(node, "ch") /\ Len(node.ch) = 1
                /\ Has(node, "interactions")
                /\ ~Has(node.interactions[1], "dest")
                /\ node.interactions[1].transition = "dissolve"
                /\ ~Has(node, "componentName")
                /\ log[i].reply.type = "export"


(***************************************************************************)
(* One answer per export request. The event loop runs the continuation of  *)
(* a handler that is under way, hence the weak fairness of its steps:      *)
(* HandlerFairness is WF_vars(HandlerStep) with ENABLED <<HandlerStep>>_vars *)
(* written out as HandlerCanStep, the guards of the handler's steps.       *)
(***************************************************************************)
HandlerStep ==
    Parse \/ TransformTree \/ TransformChild \/ TransformReturn \/ ExportResult \/ Respond

\* the handler of an export message is under way
Exporting == pc \notin {"idle", "closed"}

\* one of the handler's steps can be taken
HandlerCanStep ==
    \/ pc \in {"parse", "transform", "envelope", "respond"}
    \/ /\ pc = "walk"
       /\ Len(stack) > 0
       /\ Len(stack[Len(stack)].ch) <= Len(ChildrenOf(stack[Len(stack)].raw))

HandlerFairness == []<>(~HandlerCanStep) \/ []<><<HandlerStep>>_vars

SpecTreeLive == InitTree /\ [][Next]_vars /\ HandlerFairness

RECURSIVE Raises(_, _, _)
\* the parser reads a layer that cannot be read when it parses scene at depth
Raises(scene, opts, depth) ==
    IF Throws(scene) THEN TRUE
    ELSE IF ~scene.visible \/ (opts.maxDepth > 0 /\ depth > opts.maxDepth) THEN FALSE
    ELSE /\ opts.includeChildren
         /\ Has(scene, "children")
         /\ \E c \in 1..Len(scene.children) : Raises(scene.children[c], opts, depth + 1)

\* the message that ends the handling of the request, given what was selected
IsAnswer(m, sel, opts, tree) ==
    IF Len(sel) = 0 \/ Raises(sel[1], opts, 0) \/ ~sel[1].visible
    THEN m.type = "error" /\ ~Has(m, "data")
    ELSE /\ m.type = "export"
         /\ m.data.tree = tree
         /\ m.data.tree = RunOf(sel[1], opts).out.tree

ErrorsIn(scene) ==
    {SceneNodes(scene)[k].error :
        k \in {j \in 1..Len(SceneNodes(scene)) : Throws(SceneNodes(scene)[j])}}

\* the root can be read and shown, and the parser meets a layer below it
\* that it cannot read
ChildFails(sel, opts) ==
    /\ Len(sel) > 0
    /\ ~Throws(sel[1]) /\ sel[1].visible
    /\ Raises(sel[1], opts, 0)

\* C16 as stated: when the extraction of a child's subtree raises an
\* exception the export still completes and delivers a tree.
C16_ChildFailureSkipped ==
    \A i \in 1..Len(log) :
        (i = Len(log) /\ JustAnswered /\ ChildFails(log[i].selection, log[i].options))
            => log[i].reply.type = "export" /\ Has(log[i].reply.data, "tree")

\* C16: an exception raised while a child's subtree is extracted, other than
\* a lookup failure that is caught where it occurs, aborts the whole export:
\* the request is answered by one error message carrying the exception's
\* message, no tree is built, and nothing of the tree is delivered.
C16_ChildFailureAborts ==
    \A i \in 1..Len(log) :
        (i = Len(log) /\ JustAnswered /\ ChildFails(log[i].selection, log[i].options))
            => /\ log[i].reply.type = "error"
               /\ log[i].reply.error \in ErrorsIn(log[i].selection[1])
               /\ ~Has(log[i].reply, "data")
               /\ log[i].out = Unset /\ log[i].rawData = Unset
               /\ ui[Len(ui)] = log[i].reply
               /\ Cardinality({m \in 1..Len(ui) : ui[m].type = "export"})
                    = Cardinality({j \in 1..(i - 1) : log[j].reply.type = "export"})

\* the only request was answered by an error: the last of the root's four
\* children could not be read, after the three before it had been parsed
C16_Witness ==
    /\ JustAnswered
    /\ Len(log) = 1
    /\ ChildFails(log[1].selection, log[1].options)
    /\ Len(log[1].selection[1].children) = 4
    /\ Throws(log[1].selection[1].children[4])
    /\ \A c \in 1..3 : log[1].selection[1].children[c].visible
    /\ log[1].reply.type = "error"


(***************************************************************************)
(* Short property keys: KEY_MAP, the table of transformToShortKeys, which  *)
(* is also the legend the envelope carries in _meta.keys                   *)
(***************************************************************************)
KEY_MAP ==
    [type |-> "t", name |-> "n", layout |-> "l", gap |-> "g", justify |-> "j",
     align |-> "al", wrap |-> "wr", pos |-> "ps", constraints |-> "cn",
     opacity |-> "o", radius |-> "r", border |-> "bd", shadow |-> "sh",
     blur |-> "bl", backdropBlur |-> "bbl", blendMode |-> "bm", rotate |-> "rt",
     aspectRatio |-> "ar", zIndex |-> "z", order |-> "ord", isFirst |-> "iF",
     isLast |-> "iL", responsive |-> "rs", devInfo |-> "di", visible |-> "vs",
     overflow |-> "of", semantic |-> "sm", interactions |-> "ia",
     patternInfo |-> "pi", content |-> "c", font |-> "f", size |-> "s",
     weight |-> "wt", color |-> "cl", lineH |-> "lh", letterS |-> "ls",
     textAlign |-> "ta", textDecor |-> "td", textTransform |-> "tt",
     truncate |-> "tr", paragraphSpacing |-> "psp", autoResize |-> "ars",
     richText |-> "rT", fit |-> "ft", imageRef |-> "iR", originalSize |-> "oS",
     cropRect |-> "cR", nodeId |-> "nId"]

\* the key transformToShortKeys writes a property under
ShortKey(key) == IF key \in DOMAIN KEY_MAP THEN KEY_MAP[key] ELSE key

RECURSIVE TreeNodes(_)
\* the nodes of an output tree
TreeNodes(node) ==
    <<node>>
    \o (IF Has(node, "ch")
        THEN Concat([c \in 1..Len(node.ch) |-> TreeNodes(node.ch[c])])
        ELSE <<>>)

\* C17: in the tree of every export message, each property of each node that
\* has an entry in KEY_MAP stands under its short key: no node has a key that
\* KEY_MAP shortens, and every node has its type under t.
C17_TreeUsesShortKeys ==
    \A i \in AnsweredTrees :
        \A k \in 1..Len(TreeNodes(log[i].reply.data.tree)) :
            LET node == TreeNodes(log[i].reply.data.tree)[k] IN
            /\ \A key \in DOMAIN node : ShortKey(key) = key
            /\ Has(node, "t")


(***************************************************************************)
(* The form of the values of the colors dictionary                         *)
(***************************************************************************)
\* #RRGGBB in upper case, or rgba(...) with the function name in lower case
IsCanonicalColor(v) ==
    \/ Len(v) = 7 /\ CharAt(v, 1) = "#" /\ ToUpperCase(v) = v
    \/ StartsWithAt(v, 1, "rgba(") /\ CharAt(v, Len(v)) = ")"

\* the value the dictionary gives for a reference $cN
ColorOf(colors, reference) ==
    colors[CHOOSE e \in 1..Len(colors) : "$" \o colors[e].k = reference].v

\* C18: every value of the colors dictionary is #RRGGBB in upper case or
\* rgba(r,g,b,a) with a lower-case function name, and at every color place of
\* the tree the dictionary value of the reference is, character for
\* character, the literal the same place has with extractTokens = false.
C18_ColorValuesCanonical ==
    \A i \in TokenRuns :
        LET colors == log[i].result.tokens.colors
            references == Places(log[i].out.tree, "colors")
            literals == Places(LiteralTree(log[i].rawData), "colors")
        IN  /\ \A e \in 1..Len(colors) : IsCanonicalColor(colors[e].v)
            /\ Len(references) = Len(literals)
            /\ \A a \in 1..Len(references) :
                  ColorOf(colors, references[a]) = literals[a]


(***************************************************************************)
(* Containers that several structural detectors accept                     *)
(***************************************************************************)
\* item k with the text "k" in place of "Item k"
Numbered(item, k, numbered) ==
    IF numbered THEN [item EXCEPT !.children[1].characters = ToString(k)] ELSE item

\* oddFirst, oddLast: the first, the last item is 120 high, the others 48;
\* spread: the second item is 38 high and the third 58, the others 48;
\* fan: the second item is 40 high and the third 56, the others 48
HeightOf(k, n, look) ==
    CASE look = "oddFirst" /\ k = 1 -> 120
      [] look = "oddLast" /\ k = n -> 120
      [] look = "spread" /\ k = 2 -> 38
      [] look = "spread" /\ k = 3 -> 58
      [] look = "fan" /\ k = 2 -> 40
      [] look = "fan" /\ k = 3 -> 56
      [] OTHER -> 48

Sized(item, k, n, look) ==
    IF look = "uneven" THEN item ELSE [item EXCEPT !.height = HeightOf(k, n, look)]

PriorityLooks == {"plain", "uneven", "oddFirst", "oddLast", "spread", "fan"}

\* a container without a pattern keyword in its name
PriorityDoc(layout, clips, n, look, names, numbered) ==
    With(Frame("5:0", "Menu", "FRAME", 320, 400,
               [k \in 1..n |->
                   Sized(Numbered(Item(k, look, names), k, numbered), k, n, look)]),
         [layoutMode |-> layout[1], layoutWrap |-> layout[2], clipsContent |-> clips])

LongNames == [k \in 1..9 |-> "Item"]

\* rows of seven, eight and nine items
LongDocs ==
    { PriorityDoc(<<"HORIZONTAL", "NO_WRAP">>, FALSE, n, "plain", LongNames, numbered) :
        n \in {7, 8, 9}, numbered \in BOOLEAN }

\* the item with a second text, "2", after its own
Paired(item) ==
    [item EXCEPT !.children = @ \o <<Text("7:1", "Count", "2", "Inter", Grey)>>]

\* three items of which only the first holds numbers, and it holds two; with
\* the look oddLast the items are not of one height
PairedDoc(layout, look) ==
    With(Frame("5:0", "Menu", "FRAME", 320, 400,
               [k \in 1..3 |->
                   LET item == Sized(Item(k, look, LongNames), k, 3, look)
                   IN  IF k = 1 THEN Paired(Numbered(item, k, TRUE)) ELSE item]),
         [layoutMode |-> layout[1], layoutWrap |-> layout[2]])

PairedDocs ==
    { PairedDoc(layout, look) :
        layout \in {<<"HORIZONTAL", "NO_WRAP">>, <<"VERTICAL", "NO_WRAP">>},
        look \in {"plain", "oddLast"} }

\* a row of three items whose texts are "Step 1", "Step 2" and "Step 3", and a
\* row of the three texts "Step 1", "Intro" and " 3 " themselves
StepDocs ==
    { With(Frame("5:0", "Menu", "FRAME", 320, 400,
                 [k \in 1..3 |->
                     [Sized(Item(k, "oddLast", LongNames), k, 3, "oddLast")
                         EXCEPT !.children[1].characters = "Step " \o ToString(k)]]),
           [layoutMode |-> "HORIZONTAL"]),
      With(Frame("5:0", "Menu", "FRAME", 320, 400,
                 <<Text("6:1", "Label", "Step 1", "Inter", Grey),
                   Text("6:2", "Label", "Intro", "Inter", Grey),
                   Text("6:3", "Label", " 3 ", "Inter", Grey)>>),
           [layoutMode |-> "HORIZONTAL"]) }

\* a wrapping container 320 wide of four items 400 wide, with a gap of 0 or 16
WideDocs ==
    { With(Frame("5:0", name, "FRAME", 320, 400,
                 [k \in 1..4 |-> [Item(k, "plain", LongNames) EXCEPT !.width = 400]]),
           [layoutMode |-> "HORIZONTAL", layoutWrap |-> "WRAP", itemSpacing |-> gap]) :
        name \in {"Menu", "ProductGrid"}, gap \in {0, 16} }

PriorityDocs ==
    { PriorityDoc(layout, clips, n, look, names, numbered) :
        layout \in ContainerLayouts, clips \in BOOLEAN, n \in {0, 3, 4},
        look \in PriorityLooks, names \in ItemNames, numbered \in BOOLEAN }
    \cup LongDocs \cup PairedDocs \cup StepDocs \cup WideDocs

InitPriority == \E doc \in PriorityDocs, msgs \in LayoutExports : Start(<<doc>>, msgs)

SpecPriority == InitPriority /\ [][Next]_vars

\* the structural detectors in the order of their priority, and their labels
Detectors(raw) ==
    <<detectGridPattern(raw), detectCarouselPattern(raw), detectTabsPattern(raw),
      detectStepperPattern(raw), detectFormPattern(raw), detectListPattern(raw)>>

DetectorLabels == <<"grid", "carousel", "tabs", "stepper", "form", "list">>

Matching(raw) == {d \in 1..6 : Len(Detectors(raw)[d]) > 0}

Earliest(S) == CHOOSE d \in S : \A e \in S : d <= e

NoNameHint(raw) == Len(detectPatternFromName(raw.name)) = 0

\* C19: for a node whose name holds no pattern keyword, detectPattern gives
\* the answer of the earliest detector, in the order grid, carousel, tabs,
\* stepper, form, list, that accepts the node, each detector answering with
\* its own label, and nothing when none accepts it; the node's patternInfo
\* is that answer (a text or image node carries no patternInfo).
C19_FirstDetectorWins ==
    \A i \in AnsweredTrees :
        \A k \in 1..Len(PairsOf(i)) :
            LET raw == PairsOf(i)[k].raw
                node == PairsOf(i)[k].node
            IN  NoNameHint(raw) =>
                /\ \A d \in Matching(raw) :
                       Detectors(raw)[d][1].pattern = DetectorLabels[d]
                /\ IF Matching(raw) = {}
                   THEN detectPattern(raw) = <<>> /\ ~Has(node, "patternInfo")
                   ELSE /\ detectPattern(raw) = Detectors(raw)[Earliest(Matching(raw))]
                        /\ IsGeneric(node) =>
                              /\ Has(node, "patternInfo")
                              /\ node.patternInfo.pattern
                                    = DetectorLabels[Earliest(Matching(raw))]

\* an exported horizontal container that both the tabs and the stepper
\* detector accept, and neither grid nor carousel: it is labelled tabs
C19_Witness ==
    \E i \in AnsweredTrees :
        \E k \in 1..Len(PairsOf(i)) :
            /\ NoNameHint(PairsOf(i)[k].raw)
            /\ Matching(PairsOf(i)[k].raw) = {3, 4}
            /\ PairsOf(i)[k].node.patternInfo.pattern = "tabs"


(***************************************************************************)
(* The similarity test of the grid, carousel and list detectors            *)
(***************************************************************************)
\* same type tag, widths and heights within 10, child counts within 1
Alike(a, b) ==
    /\ a.type = b.type
    /\ Abs(a.width - b.width) <= 10 /\ Abs(a.height - b.height) <= 10
    /\ Abs(Len(ChildrenOf(a)) - Len(ChildrenOf(b))) <= 1

\* at least 70% of the children are alike, each to each
MutuallySimilar(children) ==
    \E S \in SUBSET (1..Len(children)) :
        /\ 10 * Cardinality(S) >= 7 * Len(children)
        /\ \A a \in S, b \in S : Alike(children[a], children[b])

\* the first child and the children like the first are at least 70%
SimilarToFirst(children) ==
    10 * Cardinality({c \in 1..Len(children) : c = 1 \/ Alike(children[1], children[c])})
        >= 7 * Len(children)

IsVertical(raw) == Has(raw, "layoutMode") /\ raw.layoutMode = "VERTICAL"

\* the parsed records of the export that have two children or more
Containers(i) ==
    {k \in 1..Len(PairsOf(i)) : Len(ChildrenOf(PairsOf(i)[k].raw)) >= 2}

\* C20 as stated: the test passes exactly when at least 70% of the children
\* are mutually similar, whatever their order.
C20_MutualSimilarity ==
    \A i \in AnsweredTrees :
        \A k \in Containers(i) :
            hasMostlySimilar(PairsOf(i)[k].raw.children)
                <=> MutuallySimilar(PairsOf(i)[k].raw.children)

\* C20: for a node with two children or more, the test of the grid, carousel
\* and list detectors passes exactly when the first child together with the
\* children similar to the first child are at least 70% of the children; the
\* other children are not compared with each other, so the outcome depends
\* on which child comes first.
C20_SimilarToFirstChild ==
    \A i \in AnsweredTrees :
        \A k \in Containers(i) :
            LET raw == PairsOf(i)[k].raw IN
            /\ hasMostlySimilar(raw.children) <=> SimilarToFirst(raw.children)
            /\ Len(detectListPattern(raw)) > 0
                  <=> (IsVertical(raw) /\ SimilarToFirst(raw.children))
            /\ Len(detectGridPattern(raw)) > 0
                  <=> (Wraps(raw) /\ Len(raw.children) >= 4
                       /\ SimilarToFirst(raw.children))
            /\ Len(detectCarouselPattern(raw)) > 0 => SimilarToFirst(raw.children)

\* an exported vertical container of four items of which the last three are
\* alike, each to each, and the first is unlike them: the test fails and the
\* container is not a list
C20_Witness ==
    \E i \in AnsweredTrees :
        \E k \in Containers(i) :
            LET raw == PairsOf(i)[k].raw IN
            /\ Len(raw.children) = 4
            /\ IsVertical(raw)
            /\ \A a \in 2..4, b \in 2..4 : Alike(raw.children[a], raw.children[b])
            /\ \A a \in 2..4 : ~Alike(raw.children[1], raw.children[a])
            /\ ~hasMostlySimilar(raw.children)
            /\ Len(detectListPattern(raw)) = 0


(***************************************************************************)
(* The tabs detector                                                       *)
(***************************************************************************)
IsHorizontal(raw) == Has(raw, "layoutMode") /\ raw.layoutMode = "HORIZONTAL"

\* the record is a text or one of its children is
IsOrHoldsText(child) ==
    \/ child.type = "TEXT"
    \/ \E j \in 1..Len(ChildrenOf(child)) : child.children[j].type = "TEXT"

EveryChildHasText(raw) == \A c \in 1..Len(raw.children) : IsOrHoldsText(raw.children[c])

\* every two children differ in height by at most 10
HeightsPairwiseWithin10(raw) ==
    \A a \in 1..Len(raw.children), b \in 1..Len(raw.children) :
        Abs(raw.children[a].height - raw.children[b].height) <= 10

\* every child differs in height from the first child by less than 10
HeightsNearFirst(raw) ==
    \A c \in 1..Len(raw.children) :
        Abs(raw.children[c].height - raw.children[1].height) < 10

\* the node is labelled tabs by the detector and not by its name
LabelledTabs(raw, node) ==
    /\ NoNameHint(raw)
    /\ Has(node, "patternInfo")
    /\ node.patternInfo.pattern = "tabs"

\* C21 as stated: a node is labelled tabs by the detector only if it is
\* horizontal, has at most 8 children, every child is or holds a text, and
\* every two children differ in height by at most 10.
C21_TabsHeightsPairwise ==
    \A i \in AnsweredTrees :
        \A k \in Containers(i) :
            LET raw == PairsOf(i)[k].raw IN
            (Len(detectTabsPattern(raw)) > 0 \/ LabelledTabs(raw, PairsOf(i)[k].node))
                => /\ IsHorizontal(raw)
                   /\ Len(raw.children) <= 8
                   /\ EveryChildHasText(raw)
                   /\ HeightsPairwiseWithin10(raw)

\* C21: the tabs detector accepts a node exactly when the node has 2 to 8
\* children, a horizontal layout, every child is or directly holds a text,
\* and every child differs in height from the FIRST child by less than 10
\* (two children other than the first may differ by up to 18); a node that
\* the detector labels tabs satisfies these conditions.
C21_TabsHeightsNearFirst ==
    \A i \in AnsweredTrees :
        \A k \in 1..Len(PairsOf(i)) :
            LET raw == PairsOf(i)[k].raw
                accepted == /\ Len(ChildrenOf(raw)) >= 2
                            /\ Len(raw.children) <= 8
                            /\ IsHorizontal(raw)
                            /\ EveryChildHasText(raw)
                            /\ HeightsNearFirst(raw)
            IN  /\ Len(detectTabsPattern(raw)) > 0 <=> accepted
                /\ Len(detectTabsPattern(raw)) > 0
                      => detectTabsPattern(raw)
                            = <<[pattern |-> "tabs", itemCount |-> Len(raw.children)]>>
                /\ LabelledTabs(raw, PairsOf(i)[k].node) => accepted

\* an exported horizontal container labelled tabs whose second and third
\* child differ in height by 16
C21_Witness ==
    \E i \in AnsweredTrees :
        \E k \in Containers(i) :
            LET raw == PairsOf(i)[k].raw IN
            /\ LabelledTabs(raw, PairsOf(i)[k].node)
            /\ Len(raw.children) >= 3
            /\ Abs(raw.children[2].height - raw.children[3].height) = 16


(***************************************************************************)
(* The stepper detector                                                    *)
(***************************************************************************)
\* the text of a text record is numeric-only or begins with "step"
IsStepText(node) ==
    HasCharacters(node)
    /\ (IsNumeric(Trim(node.characters)) \/ IsStepPrefixed(Trim(node.characters)))

IsNumericText(node) == HasCharacters(node) /\ IsNumeric(Trim(node.characters))

\* the child is such a text or one of its children is
HoldsStepText(child) ==
    \/ IsStepText(child)
    \/ \E j \in 1..Len(ChildrenOf(child)) : IsStepText(child.children[j])

\* the texts the detector counts: <<c, 0>> for child c itself, numeric-only
\* or "step"-prefixed, <<c, j>> for the numeric-only child j of child c
CountedTexts(raw) ==
    {<<c, 0>> : c \in {c \in 1..Len(raw.children) : IsStepText(raw.children[c])}}
    \cup UNION { {<<c, j>> : j \in {j \in 1..Len(ChildrenOf(raw.children[c])) :
                                      IsNumericText(raw.children[c].children[j])}} :
                 c \in 1..Len(raw.children) }

\* C22 as stated: a node is labelled stepper by the detector only if it is
\* horizontal, has 2 to 7 children, and at least two distinct children each
\* hold a numeric-only or "step"-prefixed text.
C22_StepperTwoChildren ==
    \A i \in AnsweredTrees :
        \A k \in Containers(i) :
            LET raw == PairsOf(i)[k].raw IN
            Len(detectStepperPattern(raw)) > 0
                => /\ IsHorizontal(raw)
                   /\ Len(raw.children) >= 2 /\ Len(raw.children) <= 7
                   /\ Cardinality({c \in 1..Len(raw.children) :
                                      HoldsStepText(raw.children[c])}) >= 2

\* C22: the stepper detector accepts a node exactly when the node has a
\* horizontal layout, 2 to 7 children, and at least two counted TEXTS, a
\* counted text being a child that is a numeric-only or "step"-prefixed text
\* or a grandchild that is a numeric-only text; the two texts may be held by
\* one child, and a "step"-prefixed grandchild is not counted.
C22_StepperTwoTexts ==
    \A i \in AnsweredTrees :
        \A k \in 1..Len(PairsOf(i)) :
            LET raw == PairsOf(i)[k].raw
                accepted == /\ Len(ChildrenOf(raw)) >= 2
                            /\ Len(raw.children) <= 7
                            /\ IsHorizontal(raw)
                            /\ Cardinality(CountedTexts(raw)) >= 2
            IN  /\ Len(detectStepperPattern(raw)) > 0 <=> accepted
                /\ Len(detectStepperPattern(raw)) > 0
                      => detectStepperPattern(raw)
                            = <<[pattern |-> "stepper", itemCount |-> Len(raw.children)]>>
                /\ (NoNameHint(raw) /\ Has(PairsOf(i)[k].node, "patternInfo")
                    /\ PairsOf(i)[k].node.patternInfo.pattern = "stepper") => accepted

\* an exported horizontal container labelled stepper in which one child
\* holds two numeric texts and no other child holds a numeric or
\* "step"-prefixed text
C22_Witness ==
    \E i \in AnsweredTrees :
        \E k \in Containers(i) :
            LET raw == PairsOf(i)[k].raw IN
            /\ NoNameHint(raw)
            /\ Has(PairsOf(i)[k].node, "patternInfo")
            /\ PairsOf(i)[k].node.patternInfo.pattern = "stepper"
            /\ Cardinality({c \in 1..Len(raw.children) :
                               HoldsStepText(raw.children[c])}) = 1
            /\ Cardinality(CountedTexts(raw)) = 2


(***************************************************************************)
(* The columns and rows of a grid                                          *)
(***************************************************************************)
\* the value is a number that JSON can hold, not Infinity
IsFiniteNumber(x) == ToString(x) # ToString(Infinity)

\* max(1, floor((containerWidth + gap) / (firstChildWidth + gap)))
ClampedColumns(raw) ==
    LET columns == FloorDiv(raw.width + ItemSpacingOf(raw),
                            raw.children[1].width + ItemSpacingOf(raw))
    IN  IF columns < 1 THEN 1 ELSE columns

\* the first child is wider than the container
FirstChildTooWide(raw) == raw.children[1].width > raw.width

\* the pairs of the export whose output node carries columns and rows
GridBlocks(i) ==
    {k \in 1..Len(PairsOf(i)) :
        /\ Has(PairsOf(i)[k].node, "patternInfo")
        /\ Has(PairsOf(i)[k].node.patternInfo, "columns")}

\* C23: whenever a pattern block carries columns and rows, columns is
\* max(1, floor((containerWidth + gap) / (firstChildWidth + gap))) and rows
\* is ceil(childCount / columns) for that clamped value, a finite integer
\* between 1 and childCount, also when the first child is wider than the
\* container.
C23_GridDimensions ==
    \A i \in AnsweredTrees :
        \A k \in GridBlocks(i) :
            LET raw == PairsOf(i)[k].raw
                info == PairsOf(i)[k].node.patternInfo
            IN  /\ info.columns = ClampedColumns(raw)
                /\ Has(info, "rows")
                /\ IsFiniteNumber(info.rows)
                /\ info.rows = CeilDiv(Len(raw.children), ClampedColumns(raw))
                /\ info.rows >= 1 /\ info.rows <= Len(raw.children)

\* the same for the blocks of nodes whose name holds the grid keyword
C23_NameHintedGridDimensions ==
    \A i \in AnsweredTrees :
        \A k \in GridBlocks(i) :
            LET raw == PairsOf(i)[k].raw
                info == PairsOf(i)[k].node.patternInfo
            IN  GridNamed(raw) =>
                /\ info.columns = ClampedColumns(raw)
                /\ IsFiniteNumber(info.rows)
                /\ info.rows = CeilDiv(Len(raw.children), ClampedColumns(raw))
                /\ info.rows >= 1 /\ info.rows <= Len(raw.children)

\* an exported name-hinted grid whose first child is wider than the container
C23_NameHintedWitness ==
    \E i \in AnsweredTrees :
        \E k \in GridBlocks(i) :
            GridNamed(PairsOf(i)[k].raw) /\ FirstChildTooWide(PairsOf(i)[k].raw)

\* an exported structurally detected grid whose first child is wider than
\* the container: columns is 1 and rows is Infinity
C23_StructuralWitness ==
    \E i \in AnsweredTrees :
        \E k \in GridBlocks(i) :
            /\ ~GridNamed(PairsOf(i)[k].raw)
            /\ FirstChildTooWide(PairsOf(i)[k].raw)
            /\ PairsOf(i)[k].node.patternInfo.columns = 1
            /\ ~IsFiniteNumber(PairsOf(i)[k].node.patternInfo.rows)


(***************************************************************************)
(* Widgets whose name and structure suggest roles                          *)
(***************************************************************************)
WidgetNames == {"Box", "Menu", "Card Button", "Search icon", "Tab list"}

\* the structural heuristics a look satisfies: buttonInput button and input,
\* inputCard input and card, cardOnly card, iconAvatar icon and avatar,
\* avatarOnly avatar, plain none
WidgetLooks == {"buttonInput", "inputCard", "cardOnly", "iconAvatar", "avatarOnly", "plain"}

Bordered == [fills |-> <<Solid(Blue)>>, cornerRadius |-> 8, strokes |-> <<Solid(Grey)>>]

Widget(id, name, look) ==
    CASE look = "buttonInput" ->
            With(Frame(id, name, "FRAME", 120, 40,
                       <<Text(id \o ".1", "Label", "Go", "Inter", Grey)>>),
                 AutoLayout("HORIZONTAL", 8, 8, 8, 8, 0) @@ Bordered)
      [] look = "inputCard" ->
            With(Frame(id, name, "FRAME", 120, 40,
                       <<Text(id \o ".1", "Label", "Go", "Inter", Grey),
                         Shape(id \o ".2", "Dot", "RECTANGLE", 8, 8)>>),
                 Bordered)
      [] look = "cardOnly" ->
            With(Frame(id, name, "FRAME", 120, 40,
                       <<Shape(id \o ".1", "Dot", "RECTANGLE", 8, 8),
                         Shape(id \o ".2", "Dot", "RECTANGLE", 8, 8)>>),
                 [fills |-> <<Solid(Blue)>>, cornerRadius |-> 8])
      [] look = "iconAvatar" ->
            With(Frame(id, name, "FRAME", 24, 24,
                       <<Shape(id \o ".1", "Dot", "VECTOR", 16, 16)>>),
                 [cornerRadius |-> 12])
      [] look = "avatarOnly" -> Shape(id, name, "ELLIPSE", 40, 40)
      [] OTHER ->
            Frame(id, name, "FRAME", 200, 100,
                  <<Shape(id \o ".1", "Dot", "RECTANGLE", 8, 8)>>)

\* a canvas with a widget of the given name and the same widget named Box
RoleDoc(name, look) ==
    Frame("8:0", "Canvas", "FRAME", 800, 600,
          <<Widget("8:1", name, look), Widget("8:2", "Box", look)>>)

\* a canvas with a panel of the given layout mode, sizing modes of the two
\* axes and horizontal constraint
SizingDoc(mode, primary, counter, horizontal) ==
    Frame("8:0", "Canvas", "FRAME", 800, 600,
          <<With(Frame("8:1", "Panel", "FRAME", 200, 100,
                       <<Shape("8:2", "Dot", "RECTANGLE", 8, 8)>>),
                 [layoutMode |-> mode, primaryAxisSizingMode |-> primary,
                  counterAxisSizingMode |-> counter,
                  constraints |-> [horizontal |-> horizontal, vertical |-> "MIN"]])>>)

SizingDocs ==
    { SizingDoc(mode, primary, counter, horizontal) :
        mode \in {"NONE", "HORIZONTAL", "VERTICAL"},
        primary \in {"AUTO", "FIXED"}, counter \in {"AUTO", "FIXED"},
        horizontal \in {"MIN", "STRETCH", "SCALE"} }

RoleDocs ==
    { RoleDoc(name, look) : name \in WidgetNames, look \in WidgetLooks }
    \cup SizingDocs

InitRole == \E doc \in RoleDocs, msgs \in LayoutExports : Start(<<doc>>, msgs)

SpecRole == InitRole /\ [][Next]_vars

(***************************************************************************)
(* Role resolution                                                         *)
(***************************************************************************)
\* the role table in the order the roles are tried
RoleOrder ==
    <<"button", "input", "card", "nav", "header", "footer", "modal", "badge",
      "avatar", "icon", "link", "list", "listItem", "tab", "menu", "tooltip",
      "dropdown">>

\* the entries of the role table of which a keyword occurs in the name
NameRoles(raw) == {r \in 1..Len(ROLE_PATTERNS) : RegexTestI(ROLE_PATTERNS[r].regex, raw.name)}

HeuristicOrder == <<"button", "input", "card", "icon", "avatar">>

Heuristics(raw) ==
    <<isLikelyButton(raw), isLikelyInput(raw), isLikelyCard(raw), isLikelyIcon(raw),
      isLikelyAvatar(raw)>>

\* the structural heuristics that hold of the record
HoldingHeuristics(raw) == {h \in 1..5 : Heuristics(raw)[h]}

\* <<the role the priority order gives>> or <<>>
RoleByPriority(raw) ==
    IF NameRoles(raw) # {} THEN <<RoleOrder[Earliest(NameRoles(raw))]>>
    ELSE IF HoldingHeuristics(raw) # {}
    THEN <<HeuristicOrder[Earliest(HoldingHeuristics(raw))]>>
    ELSE <<>>

\* the role the output node shows, <<>> when it shows none
ShownRole(node) ==
    IF Has(node, "semantic") /\ Has(node.semantic, "role")
    THEN <<node.semantic.role>> ELSE <<>>

\* C24: the role is the first entry of the role table, in the order button,
\* input, card, nav, header, footer, modal, badge, avatar, icon, link, list,
\* listItem, tab, menu, tooltip, dropdown, of which a keyword occurs in the
\* node's name, whatever the structural heuristics say; when no keyword
\* occurs it is the first of the heuristics button, input, card, icon, avatar
\* that holds, and there is no role when none holds. A node exported by the
\* generic branch shows that role in semantic.role.
C24_RolePriority ==
    /\ \A r \in 1..Len(ROLE_PATTERNS) : ROLE_PATTERNS[r].role = RoleOrder[r]
    /\ \A i \in AnsweredTrees :
          \A k \in 1..Len(PairsOf(i)) :
              LET raw == PairsOf(i)[k].raw IN
              /\ RoleOf(raw) = RoleByPriority(raw)
              /\ IsGeneric(PairsOf(i)[k].node)
                    => ShownRole(PairsOf(i)[k].node) = RoleByPriority(raw)

\* an export in which one node's name holds keywords of two roles while a
\* heuristic of yet another role holds of it, and another node, without a
\* keyword in its name, satisfies two heuristics; both show a role
C24_Witness ==
    \E i \in AnsweredTrees :
        \E k \in 1..Len(PairsOf(i)), j \in 1..Len(PairsOf(i)) :
            /\ Cardinality(NameRoles(PairsOf(i)[k].raw)) >= 2
            /\ HoldingHeuristics(PairsOf(i)[k].raw) # {}
            /\ StructuralRole(PairsOf(i)[k].raw) # RoleByPriority(PairsOf(i)[k].raw)
            /\ Len(ShownRole(PairsOf(i)[k].node)) > 0
            /\ NameRoles(PairsOf(i)[j].raw) = {}
            /\ Cardinality(HoldingHeuristics(PairsOf(i)[j].raw)) >= 2
            /\ Len(ShownRole(PairsOf(i)[j].node)) > 0


(***************************************************************************)
(* The z-order hint                                                        *)
(***************************************************************************)
HasOrderHint(node) ==
    Has(node, "order") \/ Has(node, "isFirst") \/ Has(node, "isLast")

\* the output nodes of the export that have a ch list
Parents(i) ==
    {p \in 1..Len(TreeNodes(log[i].out.tree)) : Has(TreeNodes(log[i].out.tree)[p], "ch")}

\* C25: an exported node carries the z-order hint (order, isFirst, isLast)
\* only when its parent's ch list has more than one element; the root
\* carries none, and the only element of a ch list carries none.
C25_OrderHintNeedsSiblings ==
    \A i \in AnsweredTrees :
        /\ ~HasOrderHint(log[i].out.tree)
        /\ \A p \in Parents(i) :
              LET ch == TreeNodes(log[i].out.tree)[p].ch IN
              \A c \in 1..Len(ch) : HasOrderHint(ch[c]) => Len(ch) > 1

\* for the children of a layer none of whose children is hidden: a child
\* exported by the generic branch carries the hint exactly when the ch list
\* has more than one element, with its place in the list; a text or image
\* node carries none
C25_OrderHintWithoutHiddenSiblings ==
    \A i \in AnsweredTrees :
        \A k \in 1..Len(PairsOf(i)) :
            LET raw == PairsOf(i)[k].raw
                scene == SceneNodeOf(log[i].selection[1], raw.id)
            IN  (/\ Has(raw, "children") /\ Has(PairsOf(i)[k].node, "ch")
                 /\ \A c \in 1..Len(scene.children) : IsShown(scene.children[c]))
                => \A c \in 1..Len(PairsOf(i)[k].node.ch) :
                      LET child == PairsOf(i)[k].node.ch[c] IN
                      /\ HasOrderHint(child)
                            <=> (Len(PairsOf(i)[k].node.ch) > 1 /\ IsGeneric(child))
                      /\ HasOrderHint(child) =>
                            /\ child.order = c - 1
                            /\ Has(child, "isFirst") <=> c = 1
                            /\ Has(child, "isLast") <=> c = Len(PairsOf(i)[k].node.ch)

\* an exported panel whose ch list has one element, a dot whose only sibling
\* is hidden, and the dot carries the hint
C25_HiddenSiblingWitness ==
    \E i \in AnsweredTrees :
        \E p \in Parents(i) :
            LET ch == TreeNodes(log[i].out.tree)[p].ch IN
            Len(ch) = 1 /\ HasOrderHint(ch[1])


(***************************************************************************)
(* Recursion into the children                                             *)
(***************************************************************************)
\* node.ch is the list of the transforms of raw.children, in their order
\* (for an export without tokens, where a transform does not depend on the
\* nodes visited before)
ChildrenAttached(raw, node) ==
    /\ Has(node, "ch")
    /\ Len(node.ch) = Len(raw.children)
    /\ \A c \in 1..Len(raw.children) :
          node.ch[c] = transformNode(raw.children[c], NewTokenExtractor, FALSE).node

\* the pairs of an export without tokens whose parsed record has children
WithChildren(i) ==
    {k \in 1..Len(PairsOf(i)) :
        ~log[i].options.extractTokens /\ Has(PairsOf(i)[k].raw, "children")}

\* C26 as stated: for every raw record that has children, whatever its type
\* and fills, the output node has a ch list of the same length whose i-th
\* element is the transform of the i-th child.
C26_ChildrenAlwaysAttached ==
    \A i \in AnsweredTrees :
        \A k \in WithChildren(i) : ChildrenAttached(PairsOf(i)[k].raw, PairsOf(i)[k].node)

\* C26: for every raw record that has children, has no image fill and is not
\* of type TEXT, the output node has a ch list of the same length whose i-th
\* element is the transform of the i-th child, in the same order; a record
\* with an image fill is output as an img leaf without ch, whatever children
\* it has.
C26_ChildrenAttachedUnlessImage ==
    \A i \in AnsweredTrees :
        \A k \in WithChildren(i) :
            LET raw == PairsOf(i)[k].raw
                node == PairsOf(i)[k].node
            IN  IF hasImageFill(raw) THEN node.type = "img" /\ ~Has(node, "ch")
                ELSE raw.type # "TEXT" => ChildrenAttached(raw, node)

\* an export in which a record with children and an image fill became an img
\* leaf, under a record without image fill whose ch list holds it
C26_Witness ==
    \E i \in AnsweredTrees :
        \E k \in WithChildren(i), j \in WithChildren(i) :
            /\ hasImageFill(PairsOf(i)[k].raw)
            /\ ~Has(PairsOf(i)[k].node, "ch")
            /\ ~hasImageFill(PairsOf(i)[j].raw)
            /\ Len(PairsOf(i)[j].node.ch) >= 3
            /\ PairsOf(i)[j].node.ch[1] = PairsOf(i)[k].node


(***************************************************************************)
(* transformToShortKeys and transformToLongKeys. An array is a sequence,   *)
(* an object a record; a background is the record [solid |-> string] or    *)
(* [gradient |-> object], whose one key has no entry in either table.      *)
(***************************************************************************)
\* Object.fromEntries(Object.entries(KEY_MAP).map(([k, v]) => [v, k]))
REVERSE_KEY_MAP ==
    [s \in {KEY_MAP[k] : k \in DOMAIN KEY_MAP} |->
        CHOOSE k \in DOMAIN KEY_MAP : KEY_MAP[k] = s]

\* the key transformToLongKeys writes a property under
LongKey(key) == IF key \in DOMAIN REVERSE_KEY_MAP THEN REVERSE_KEY_MAP[key] ELSE key

\* the first character of the value as it is printed
TypeTag(v) == CharAt(ToString(v), 1)

\* Array.isArray(v)
IsArray(v) == TypeTag(v) = "<"

\* typeof v === 'object' && v !== null
IsObject(v) == TypeTag(v) \in {"<", "["} /\ IsFiniteNumber(v)

RECURSIVE transformToShortKeys(_)
transformToShortKeys(obj) ==
    IF IsArray(obj)
    THEN [i \in 1..Len(obj) |->
            IF IsObject(obj[i]) THEN transformToShortKeys(obj[i]) ELSE obj[i]]
    ELSE [s \in {ShortKey(k) : k \in DOMAIN obj} |->
            LET key == CHOOSE k \in DOMAIN obj : ShortKey(k) = s
            IN  IF IsObject(obj[key]) THEN transformToShortKeys(obj[key]) ELSE obj[key]]

RECURSIVE transformToLongKeys(_)
transformToLongKeys(obj) ==
    IF IsArray(obj)
    THEN [i \in 1..Len(obj) |->
            IF IsObject(obj[i]) THEN transformToLongKeys(obj[i]) ELSE obj[i]]
    ELSE [l \in {LongKey(k) : k \in DOMAIN obj} |->
            LET key == CHOOSE k \in DOMAIN obj : LongKey(k) = l
            IN  IF IsObject(obj[key]) THEN transformToLongKeys(obj[key]) ELSE obj[key]]

RoundTrip(tree) == transformToLongKeys(transformToShortKeys(tree))

\* the output nodes of the export that have a border
Bordereds(i) ==
    {n \in 1..Len(TreeNodes(log[i].out.tree)) :
        Has(TreeNodes(log[i].out.tree)[n], "border")}

\* C27: for every output tree T, transformToLongKeys(transformToShortKeys(T))
\* equals T.
C27_KeyShorteningReversible ==
    \A i \in AnsweredTrees : RoundTrip(log[i].out.tree) = log[i].out.tree

\* the round trip gives the tree back when no node of the tree has a border
C27_ReversibleWithoutBorder ==
    \A i \in AnsweredTrees :
        Bordereds(i) = {} => RoundTrip(log[i].out.tree) = log[i].out.tree

\* the round trip of a node with a border gives the border's colour under
\* the key content: shortening leaves border.c as c, the short key of
\* content, and lengthening renames it
C27_BorderColourRenamed ==
    \A i \in AnsweredTrees :
        \A n \in Bordereds(i) :
            LET node == TreeNodes(log[i].out.tree)[n] IN
            /\ Has(node.border, "c")
            /\ transformToShortKeys(node).bd = node.border
            /\ ~Has(RoundTrip(node).border, "c")
            /\ RoundTrip(node).border.content = node.border.c

\* an exported tree with a bordered node, and one without
C27_BorderWitness ==
    \E i \in AnsweredTrees : Bordereds(i) # {}

C27_NoBorderWitness ==
    \E i \in AnsweredTrees :
        Bordereds(i) = {} /\ Len(TreeNodes(log[i].out.tree)) > 1


(***************************************************************************)
(* Closure of the envelope under token references                          *)
(***************************************************************************)
\* the key a reference "$c0" has in its dictionary: "c0"
KeyOf(reference) == SubSeq(reference, 2, Len(reference))

\* every place of a kind in the tree holds a reference of that kind's letter
\* whose key the dictionary has
ReferencesResolve(tree, tokens) ==
    \A kind \in Kinds :
        LET P == Places(tree, kind) IN
        \A a \in 1..Len(P) :
            /\ Len(P[a]) > 2
            /\ SubSeq(P[a], 1, 2) = "$" \o KindLetter(kind)
            /\ MapHas(tokens[kind], KeyOf(P[a]))

\* every key of every dictionary is the key of a reference in the tree
KeysReferenced(tree, tokens) ==
    \A kind \in Kinds :
        LET P == Places(tree, kind) IN
        \A k \in 1..Len(tokens[kind]) :
            \E a \in 1..Len(P) : IsReference(P[a]) /\ KeyOf(P[a]) = tokens[kind][k].k

\* C28: with extractTokens = true the answered envelope is closed under token
\* references: every $cN of a bg, gradient stop, border.c, text color or
\* rich-text segment color, every $fN of a font and every $sN of a shadow in
\* the tree has its key cN/fN/sN in the matching dictionary of the same
\* envelope, and every dictionary key is referenced by some node of the tree.
C28_TokenClosure ==
    \A i \in TokenRuns :
        LET data == log[i].reply.data IN
        /\ log[i].reply.type = "export"
        /\ ReferencesResolve(data.tree, data.tokens)
        /\ KeysReferenced(data.tree, data.tokens)

\* an answered envelope with tokens of the three kinds whose tree refers to
\* colors from a gradient stop, a border and a rich-text segment
C28_Witness ==
    \E i \in TokenRuns :
        LET data == log[i].reply.data
            nodes == TreeNodes(data.tree)
        IN  /\ \A kind \in Kinds : Len(data.tokens[kind]) > 0
            /\ \E k \in 1..Len(nodes) :
                   Has(nodes[k], "bg") /\ Has(nodes[k].bg, "gradient")
            /\ \E k \in 1..Len(nodes) :
                   Has(nodes[k], "border") /\ IsReference(nodes[k].border.c)
            /\ \E k \in 1..Len(nodes) : Len(SegmentValues(nodes[k], "color")) > 0


(***************************************************************************)
(* Width sizing and the fluid hint                                         *)
(***************************************************************************)
IsFluid(node) ==
    Has(node, "responsive") /\ Has(node.responsive, "fluid") /\ node.responsive.fluid

HugsWidth(node) == Has(node, "w") /\ node.w = Str("hug")

\* C29: the width sizing and the fluid hint never contradict each other: no
\* output node has both w = "hug" and responsive.fluid = true.
C29_HugNeverFluid ==
    \A i \in AnsweredTrees :
        \A k \in 1..Len(PairsOf(i)) :
            ~(HugsWidth(PairsOf(i)[k].node) /\ IsFluid(PairsOf(i)[k].node))

\* the sizing mode isFluidWidth reads is the one of the height: no output node
\* of an auto-layout record has both h = "hug" and responsive.fluid = true
C29_HeightHugNeverFluid ==
    \A i \in AnsweredTrees :
        \A k \in 1..Len(PairsOf(i)) :
            LET p == PairsOf(i)[k] IN
            (/\ Has(p.raw, "layoutMode") /\ p.raw.layoutMode # "NONE"
             /\ Has(p.node, "h") /\ p.node.h = Str("hug")) => ~IsFluid(p.node)

\* an answered export with a horizontal auto-layout node that hugs its width,
\* has a fixed height and a stretch constraint, and is marked fluid
C29_HugAndFluidWitness ==
    \E i \in AnsweredTrees :
        \E k \in 1..Len(PairsOf(i)) :
            LET p == PairsOf(i)[k] IN
            /\ Has(p.raw, "layoutMode") /\ p.raw.layoutMode = "HORIZONTAL"
            /\ p.raw.primaryAxisSizingMode = "AUTO"
            /\ p.raw.counterAxisSizingMode = "FIXED"
            /\ p.raw.constraints.horizontal = "STRETCH"
            /\ HugsWidth(p.node) /\ IsFluid(p.node)


(***************************************************************************)
(* Documents and messages of overlapping exports                           *)
(***************************************************************************)
\* a screen with an instance holding a label, and a footer that can be read
\* or not
BuyDoc(unreadable) ==
    Frame("10:1", "Screen", "FRAME", 400, 400,
          << With(Frame("10:2", "Buy", "INSTANCE", 120, 40,
                        <<Text("10:3", "Label", "Buy", "Inter", Red)>>),
                  [mainComponent |-> [name |-> "Button/Primary", description |-> ""],
                   fills |-> <<Solid(Green)>>]),
             Broken(With(Shape("10:4", "Footer", "RECTANGLE", 400, 20),
                         [fills |-> <<Solid(Red)>>]),
                    unreadable) >>)

OverlapSelections == {<<>>, <<LabelDoc>>, <<BuyDoc("")>>, <<BuyDoc("10:4")>>}

OverlapPartials == {[extractTokens |-> TRUE], [extractTokens |-> FALSE]}

\* two export messages, with or without a close message after them
OverlapInboxes ==
    { <<ExportMsg(a), ExportMsg(b)>> : a, b \in OverlapPartials }
    \cup { <<ExportMsg(a), ExportMsg(b), CloseMsg>> : a, b \in OverlapPartials }

(***************************************************************************)
(* code.ts: overlapping handlers. onmessage is an async function: an       *)
(* export message starts a task that runs up to its first await and is     *)
(* resumed once for each await it passes, while other messages and         *)
(* selection changes are dispatched in between. In this specification the  *)
(* locals of the handler (options, result) and of exportSelection (node,   *)
(* rawData, tree and tokens) are kept per task: pc, options, rawData, out  *)
(* and result are sequences indexed by task, stack[t] holds the selection  *)
(* exportSelection read and the awaits parseNode has still to pass, and te *)
(* is the TokenExtractor of the transformTree call that ran last.          *)
(* transformTree up to the return of exportSelection has no await and is   *)
(* one step.                                                               *)
(***************************************************************************)
RECURSIVE Awaits(_, _, _)
RECURSIVE ChildAwaits(_, _, _, _)
\* the awaits parseNode(node, opts, depth) passes before it settles: one for
\* getMainComponentAsync of an instance, one for each parseNode of a child
Awaits(node, opts, depth) ==
    IF Throws(node) \/ ~isVisibleNode(node) \/ BeyondMaxDepth(opts, depth) THEN 0
    ELSE (IF node.type = "INSTANCE" THEN 1 ELSE 0)
         + (IF opts.includeChildren /\ Has(node, "children")
            THEN ChildAwaits(node.children, 1, opts, depth)
            ELSE 0)

\* the awaits of the loop over the children from child i on; the loop ends
\* with the child whose parseNode rejects
ChildAwaits(children, i, opts, depth) ==
    IF i > Len(children) THEN 0
    ELSE 1 + Awaits(children[i], opts, depth + 1)
         + (IF Throws(children[i]) \/ IsThrown(parseNode(children[i], opts, depth + 1))
            THEN 0
            ELSE ChildAwaits(children, i + 1, opts, depth))

Tasks == 1..Len(pc)

\* onmessage({type: 'export'}) up to the first await: of parseNode, or of
\* exportSelection when nothing is selected
OverlapReceiveExport ==
    /\ Len(inbox) > 0
    /\ Head(inbox).type = "export"
    /\ \A t \in Tasks : pc[t] # "closed"
    /\ inbox' = Tail(inbox)
    /\ options' = Append(options, Head(inbox).options @@ DEFAULT_OPTIONS)
    /\ rawData' = Append(rawData, Unset)
    /\ out' = Append(out, Unset)
    /\ IF Len(selection) = 0
       THEN /\ result' = Append(result, Null)
            /\ stack' = Append(stack, [node |-> selection, awaits |-> 0])
            /\ pc' = Append(pc, "settled")
       ELSE /\ result' = Append(result, Unset)
            /\ stack' = Append(stack,
                   [node |-> selection,
                    awaits |-> Awaits(selection[1],
                                      Head(inbox).options @@ DEFAULT_OPTIONS, 0)])
            /\ pc' = Append(pc, "parse")
    /\ UNCHANGED <<selection, selChanges, te, ui, log>>

\* parseNode of task t is resumed after an await and runs to its next one
OverlapParseStep(t) ==
    /\ pc[t] = "parse"
    /\ stack[t].awaits > 0
    /\ stack' = [stack EXCEPT ![t].awaits = @ - 1]
    /\ UNCHANGED <<selection, inbox, selChanges, pc, options, rawData, te, out,
                   result, ui, log>>

\* transformTree(rawData, options.extractTokens) gave r from a new extractor:
\* exportSelection returns the envelope
OverlapTransformed(t, raw, r) ==
    /\ rawData' = [rawData EXCEPT ![t] = raw]
    /\ te' = r.te
    /\ out' = [out EXCEPT ![t] = [tree |-> r.node, tokens |-> getTokens(r.te)]]
    /\ result' = [result EXCEPT ![t] =
                     Envelope(stack[t].node[1], options[t],
                              [tree |-> r.node, tokens |-> getTokens(r.te)])]

\* exportSelection of task t is resumed with r, what parseNode settled with
OverlapParsed(t, r) ==
    IF IsThrown(r) \/ r = Null
    THEN /\ result' = [result EXCEPT ![t] = r]
         /\ rawData' = [rawData EXCEPT ![t] = IF IsThrown(r) THEN Unset ELSE r]
         /\ UNCHANGED <<te, out>>
    ELSE OverlapTransformed(t, r,
             transformNode(r, NewTokenExtractor, options[t].extractTokens))

\* the rest of exportSelection reading the options of the message that came
\* last, as it would if options were kept outside the handler
OverlapExportSelectionLatestOptions(t) ==
    /\ pc[t] = "parse"
    /\ stack[t].awaits = 0
    /\ LET latest == options[Len(options)] IN
       LET r == parseNode(stack[t].node[1], latest, 0) IN
       IF IsThrown(r) \/ r = Null
       THEN /\ result' = [result EXCEPT ![t] = r]
            /\ rawData' = [rawData EXCEPT ![t] = IF IsThrown(r) THEN Unset ELSE r]
            /\ UNCHANGED <<te, out>>
       ELSE LET done == transformNode(r, NewTokenExtractor, latest.extractTokens) IN
            /\ rawData' = [rawData EXCEPT ![t] = r]
            /\ te' = done.te
            /\ out' = [out EXCEPT ![t] = [tree |-> done.node,
                                          tokens |-> getTokens(done.te)]]
            /\ result' = [result EXCEPT ![t] =
                             Envelope(stack[t].node[1], latest,
                                      [tree |-> done.node,
                                       tokens |-> getTokens(done.te)])]
    /\ pc' = [pc EXCEPT ![t] = "settled"]
    /\ UNCHANGED <<selection, inbox, selChanges, options, stack, ui, log>>

\* the last await of parseNode is passed: the rest of exportSelection
OverlapExportSelection(t) ==
    /\ pc[t] = "parse"
    /\ stack[t].awaits = 0
    /\ OverlapParsed(t, parseNode(stack[t].node[1], options[t], 0))
    /\ pc' = [pc EXCEPT ![t] = "settled"]
    /\ UNCHANGED <<selection, inbox, selChanges, options, stack, ui, log>>

\* onmessage of task t is resumed after await exportSelection and posts
OverlapRespond(t) ==
    /\ pc[t] = "settled"
    /\ ui' = Append(ui, Reply(result[t]))
    /\ log' = Append(log, [task |-> t, selection |-> stack[t].node,
                           options |-> options[t], rawData |-> rawData[t],
                           out |-> out[t], result |-> result[t],
                           reply |-> Reply(result[t])])
    /\ pc' = [pc EXCEPT ![t] = "done"]
    /\ UNCHANGED <<selection, inbox, selChanges, options, rawData, te, stack, out,
                   result>>

\* onmessage({type: 'close'}): figma.closePlugin() ends every task
OverlapReceiveClose ==
    /\ Len(inbox) > 0
    /\ Head(inbox).type = "close"
    /\ \A t \in Tasks : pc[t] # "closed"
    /\ inbox' = Tail(inbox)
    /\ pc' = [t \in Tasks |-> "closed"]
    /\ UNCHANGED <<selection, selChanges, options, rawData, te, stack, out, result,
                   ui, log>>

\* the user selects something else, whatever the tasks are doing
OverlapSelectionChange ==
    /\ \A t \in Tasks : pc[t] # "closed"
    /\ selChanges < MaxSelChanges
    /\ \E sel \in OverlapSelections :
        /\ sel # selection
        /\ selection' = sel
        /\ ui' = Append(ui, SelectionMsg(sel))
    /\ selChanges' = selChanges + 1
    /\ UNCHANGED <<inbox, pc, options, rawData, te, stack, out, result, log>>

InitOverlap ==
    /\ selection \in OverlapSelections
    /\ inbox \in OverlapInboxes
    /\ selChanges = 0
    /\ pc = <<>>
    /\ options = <<>>
    /\ rawData = <<>>
    /\ te = Unset
    /\ stack = <<>>
    /\ out = <<>>
    /\ result = <<>>
    /\ ui = <<SelectionMsg(selection)>>
    /\ log = <<>>

NextOverlap ==
    \/ OverlapReceiveExport
    \/ \E t \in Tasks : OverlapParseStep(t)
    \/ \E t \in Tasks : OverlapExportSelection(t)
    \/ \E t \in Tasks : OverlapRespond(t)
    \/ OverlapReceiveClose
    \/ OverlapSelectionChange

SpecOverlap == InitOverlap /\ [][NextOverlap]_vars


(***************************************************************************)
(* Overlapping exports                                                     *)
(***************************************************************************)
\* what exportSelection gives after parseNode settled with r, from a registry
\* of its own
AloneAfterParse(node, opts, r) ==
    IF IsThrown(r) \/ r = Null THEN r
    ELSE Envelope(node, opts, FreshRun(r, opts.extractTokens))

\* what an export with options opts gives when sel is selected and no other
\* export is under way
ExportAlone(sel, opts) ==
    IF Len(sel) = 0 THEN Null
    ELSE AloneAfterParse(sel[1], opts, parseNode(sel[1], opts, 0))

\* the keys of each dictionary are c0.., f0.., s0.. without a gap
NumberedFromZero(tokens) ==
    \A kind \in Kinds :
        {tokens[kind][k].k : k \in 1..Len(tokens[kind])}
            = {KindLetter(kind) \o ToString(n) : n \in 0..(Len(tokens[kind]) - 1)}

\* the answer e is the one its request gets when it runs alone on the
\* selection it found, with tokens numbered from c0, f0 and s0
AnsweredAsAlone(e) ==
    /\ e.reply = Reply(ExportAlone(e.selection, e.options))
    /\ e.reply.type = "export" => NumberedFromZero(e.reply.data.tokens)

\* C30: overlapping export requests do not interfere: under every interleaving
\* at the await points, whenever a request is answered the response is the one
\* the request gets when it runs alone on the selection it found, the envelope
\* numbers its tokens from c0, f0 and s0 in a registry of its own, and the
\* request was not answered before.
C30_OverlappingExportsIndependent ==
    [][Len(log') > Len(log) =>
          /\ AnsweredAsAlone(log'[Len(log')])
          /\ \A a \in 1..Len(log) : log[a].task # log'[Len(log')].task]_vars

\* the second request was received while the first awaited its extraction,
\* on another selection, and was answered first; both answers carry tokens
C30_Witness ==
    /\ Len(log) = 2
    /\ log[1].task = 2 /\ log[2].task = 1
    /\ log[1].selection # log[2].selection
    /\ \A e \in 1..2 :
          /\ log[e].reply.type = "export"
          /\ Len(log[e].reply.data.tokens.colors) > 0

====
